---- MODULE Spec2Model ----
(***************************************************************************)
(* Model of the ECG trace-extraction core of digitize_service/viterbi.py:  *)
(* the region selector (find_rhythm_strip), the path extractor             *)
(* (extract_trace_viterbi with its centroid fallback) and the pipeline     *)
(* extract_signal.                                                         *)
(*                                                                         *)
(* Arrays keep the source's 0-based indices: a per-column array is a       *)
(* function on 0..W-1.  A boolean mask is the record [H, W, on] where on   *)
(* is the set of <<row, column>> positions that are True.  Floating-point  *)
(* values are exact rationals [n, d] (d > 0), and NaN is the pair 0/0.     *)
(***************************************************************************)
EXTENDS Integers, Sequences, FiniteSets, TLC

VARIABLES
    pc,                  \* position of the call being modelled
    image,               \* extract_signal argument: [H, W, px]
    image_bytes,         \* extract_signal argument: TRUE when raw bytes were passed
    paper_speed_mm_s,    \* extract_signal argument
    voltage_scale_mm_mV, \* extract_signal argument
    target_fs,           \* extract_signal argument
    trace_mask,          \* local of extract_signal / argument of the pure functions
    trace_pixel_count,   \* local of extract_signal
    method,              \* local of extract_signal
    color_info,          \* what identify_trace_colors returned (or NoCall)
    grid,                \* what detect_grid_spacing_robust returned
    grid_spacing_px,     \* local of extract_signal
    grid_confidence,     \* local of extract_signal
    y_start,             \* region
    y_end,               \* region
    max_jump,            \* argument of extract_trace_viterbi
    trace_px,            \* the extracted path
    path_source,         \* which branch produced trace_px: "dp", "centroid", "except"
    cal,                 \* locals of steps 5..9 of extract_signal
    result,              \* the ExtractionResult, or NoResult
    request,             \* the HTTP request a handler of app.py serves
    response,            \* the HTTP response it answers, or NoResponse
    ref_call,            \* a call of a function of pediatric_reference.py
    ref_result,          \* what the call returned
    latest_ecg,          \* clipboard-watcher.py global: 0 for None, k for the k-th ECG made
    ecg_counter,         \* clipboard-watcher.py global
    watcher,             \* the thread running clipboard_watch_loop: position and locals
    handler,             \* the Flask threads serving /latest-ecg and /ecg-ready
    ready_seen           \* the highest count a /ecg-ready response has carried so far

vars == <<pc, image, image_bytes, paper_speed_mm_s, voltage_scale_mm_mV, target_fs,
          trace_mask, trace_pixel_count, method, color_info, grid, grid_spacing_px,
          grid_confidence, y_start, y_end, max_jump, trace_px, path_source, cal, result,
          request, response, ref_call, ref_result,
          latest_ecg, ecg_counter, watcher, handler, ready_seen>>

watcher_vars == <<latest_ecg, ecg_counter, watcher, handler, ready_seen>>

-----------------------------------------------------------------------------
(* Integers and exact rationals *)

Abs(a) == IF a < 0 THEN -a ELSE a

Min2(a, b) == IF b < a THEN b ELSE a

Max2(a, b) == IF b > a THEN b ELSE a

RECURSIVE GCD(_, _)
GCD(a, b) == IF b = 0 THEN a ELSE GCD(b, a % b)

NaN == [n |-> 0, d |-> 0]

IsNaN(r) == r.d = 0

Rat(n, d) ==
    IF d = 0 THEN NaN
    ELSE LET g == GCD(Abs(n), Abs(d))
             s == IF d < 0 THEN -1 ELSE 1
         IN  [n |-> (s * n) \div g, d |-> (s * d) \div g]

RInt(i) == [n |-> i, d |-> 1]

\* the operands are reduced against each other before they are multiplied, which
\* keeps the intermediate integers small
RAdd(a, b) ==
    IF IsNaN(a) \/ IsNaN(b) THEN NaN
    ELSE LET g == GCD(a.d, b.d)
         IN  Rat(a.n * (b.d \div g) + b.n * (a.d \div g), (a.d \div g) * b.d)

RNeg(a) == [n |-> -a.n, d |-> a.d]

RSub(a, b) == RAdd(a, RNeg(b))

RMul(a, b) ==
    IF IsNaN(a) \/ IsNaN(b) THEN NaN
    ELSE LET g1 == GCD(Abs(a.n), b.d)
             g2 == GCD(Abs(b.n), a.d)
         IN  Rat((a.n \div g1) * (b.n \div g2), (a.d \div g2) * (b.d \div g1))

RDiv(a, b) ==
    IF IsNaN(a) \/ IsNaN(b) THEN NaN
    ELSE IF b.n < 0 THEN RMul(a, [n |-> -b.d, d |-> -b.n])
    ELSE RMul(a, [n |-> b.d, d |-> b.n])

\* a.n / a.d - b.n / b.d has the sign of Cross(a, b)
Cross(a, b) ==
    LET g == GCD(a.d, b.d)
    IN  a.n * (b.d \div g) - b.n * (a.d \div g)

\* every comparison with NaN is false, as in IEEE arithmetic
RLt(a, b) == ~IsNaN(a) /\ ~IsNaN(b) /\ Cross(a, b) < 0

RLe(a, b) == ~IsNaN(a) /\ ~IsNaN(b) /\ Cross(a, b) <= 0

\* Python's min(a, b): a unless b < a
PyMin(a, b) == IF RLt(b, a) THEN b ELSE a

\* int(r) for r >= 0
RFloor(r) == r.n \div r.d

Range(s) == {s[i] : i \in DOMAIN s}

\* the sum of the members of S that lie in lo..hi (halving keeps the recursion shallow)
RECURSIVE SumIn(_, _, _)
SumIn(S, lo, hi) ==
    IF lo > hi THEN 0
    ELSE IF lo = hi THEN (IF lo \in S THEN lo ELSE 0)
    ELSE SumIn(S, lo, (lo + hi) \div 2) + SumIn(S, (lo + hi) \div 2 + 1, hi)

\* the least member of S that is >= i, or hi + 1 when none is <= hi
RECURSIVE ScanUp(_, _, _)
ScanUp(S, i, hi) == IF i > hi THEN hi + 1 ELSE IF i \in S THEN i ELSE ScanUp(S, i + 1, hi)

\* the greatest member of S that is <= i, or -1 when none is >= 0
RECURSIVE ScanDown(_, _)
ScanDown(S, i) == IF i < 0 THEN -1 ELSE IF i \in S THEN i ELSE ScanDown(S, i - 1)

RECURSIVE SortedSeq(_)
SortedSeq(S) ==
    IF S = {} THEN <<>>
    ELSE LET m == CHOOSE v \in S : \A w \in S : v <= w
         IN  <<m>> \o SortedSeq(S \ {m})

-----------------------------------------------------------------------------
(* find_rhythm_strip *)

num_bands == 5

band_height(H) == H \div num_bands

\* np.any(band, axis=0): the columns with a True pixel in rows ys..ye-1
ColsWithTrace(mask, ys, ye) ==
    {x \in 0..(mask.W - 1) : \E y \in ys..(ye - 1) : <<y, x>> \in mask.on}

\* np.sum(band)
BandSum(mask, ys, ye) == Cardinality({p \in mask.on : ys <= p[1] /\ p[1] < ye})

\* np.sum(np.abs(np.diff(col_has_trace)))
BandGaps(mask, ys, ye) ==
    LET cols == ColsWithTrace(mask, ys, ye)
    IN  Cardinality({x \in 0..(mask.W - 2) : (x \in cols) # ((x + 1) \in cols)})

\* one entry of band_scores: (i, score, y_start, y_end)
BandScore(mask, i) ==
    LET ys == i * band_height(mask.H)
        ye == Min2((i + 1) * band_height(mask.H), mask.H)
        coverage == Rat(Cardinality(ColsWithTrace(mask, ys, ye)), mask.W)
        density == Rat(BandSum(mask, ys, ye), (ye - ys) * mask.W)
        continuity == Rat(100, 100 + BandGaps(mask, ys, ye))
        score == RAdd(RAdd(RMul(coverage, Rat(1, 2)), RMul(continuity, Rat(3, 10))),
                      PyMin(RMul(density, RInt(10)), Rat(1, 5)))
    IN  [i |-> i, score |-> score, y_start |-> ys, y_end |-> ye]

band_scores(mask) == [k \in 1..num_bands |-> BandScore(mask, k - 1)]

\* a sort that is not stable: an element also moves in front of the elements
\* whose key equals its own
RECURSIVE InsertDescOnTie(_, _)
InsertDescOnTie(sorted, e) ==
    IF sorted = <<>> THEN <<e>>
    ELSE IF RLe(Head(sorted).score, e.score) THEN <<e>> \o sorted
    ELSE <<Head(sorted)>> \o InsertDescOnTie(Tail(sorted), e)

\* list.sort(key=score, reverse=True): stable, and an element moves in front of
\* another only when the comparison of their keys says so
RECURSIVE InsertDesc(_, _)
InsertDesc(sorted, e) ==
    IF sorted = <<>> THEN <<e>>
    ELSE IF RLt(Head(sorted).score, e.score) THEN <<e>> \o sorted
    ELSE <<Head(sorted)>> \o InsertDesc(Tail(sorted), e)

RECURSIVE SortDesc(_, _)
SortDesc(s, k) == IF k = 0 THEN <<>> ELSE InsertDesc(SortDesc(s, k - 1), s[k])

find_rhythm_strip(mask) ==
    LET sorted == SortDesc(band_scores(mask), num_bands)
        best == sorted[1]
        margin == band_height(mask.H) \div 3
    IN  [y_start |-> Max2(0, best.y_start - margin),
         y_end |-> Min2(mask.H, best.y_end + margin)]

-----------------------------------------------------------------------------
(* extract_trace_centroid *)

\* np.where(col)[0] for column x of region = trace_mask[ys:ye, :]
RegionRows(mask, ys, ye, x) ==
    {y - ys : y \in {yy \in ys..(ye - 1) : <<yy, x>> \in mask.on}}

\* np.mean of a non-empty set of rows of a region of region_h rows
Mean(S, region_h) == Rat(SumIn(S, 0, region_h - 1), Cardinality(S))

\* trace_y before the gaps are interpolated
CentroidRaw(mask, ys, ye) ==
    [x \in 0..(mask.W - 1) |->
        LET rows == RegionRows(mask, ys, ye, x)
        IN  IF rows = {} THEN NaN ELSE RAdd(RInt(ys), Mean(rows, ye - ys))]

\* interp1d(valid_x, trace_y[valid_x], kind='linear', bounds_error=False,
\*          fill_value=(first, last)) evaluated on np.arange(W)
Interp(trace_y, valid_x, W) ==
    LET first == ScanUp(valid_x, 0, W - 1)
        last == ScanDown(valid_x, W - 1)
    IN  [x \in 0..(W - 1) |->
            IF x \in valid_x THEN trace_y[x]
            ELSE IF x < first THEN trace_y[first]
            ELSE IF x > last THEN trace_y[last]
            ELSE LET lo == ScanDown(valid_x, x)
                     hi == ScanUp(valid_x, x, W - 1)
                     slope == RDiv(RSub(trace_y[hi], trace_y[lo]), RInt(hi - lo))
                 IN  RAdd(trace_y[lo], RMul(slope, RInt(x - lo)))]

\* the k-th smallest (k from 1) of a bag of rationals given as a function on 1..n
RECURSIVE InsertAsc(_, _)
InsertAsc(sorted, e) ==
    IF sorted = <<>> THEN <<e>>
    ELSE IF RLt(e, Head(sorted)) THEN <<e>> \o sorted
    ELSE <<Head(sorted)>> \o InsertAsc(Tail(sorted), e)

RECURSIVE SortAsc(_, _)
SortAsc(s, k) == IF k = 0 THEN <<>> ELSE InsertAsc(SortAsc(s, k - 1), s[k])

\* scipy.signal.medfilt(trace_y, kernel_size=5): zero-padded window of 5
medfilt(trace_y, W) ==
    LET padded(i) == IF 0 <= i /\ i < W THEN trace_y[i] ELSE RInt(0)
    IN  [x \in 0..(W - 1) |->
            LET window == [k \in 1..5 |-> padded(x + k - 3)]
            IN  SortAsc(window, 5)[3]]

\* extract_trace_centroid with the interpolation and the median filter left
\* out: the raw per-column means
extract_trace_centroid_raw(mask, ys, ye) == CentroidRaw(mask, ys, ye)

extract_trace_centroid(mask, ys, ye) ==
    LET W == mask.W
        trace_y == CentroidRaw(mask, ys, ye)
        valid_x == {x \in 0..(W - 1) : ~IsNaN(trace_y[x])}
    IN  IF 5 * Cardinality(valid_x) < W
        THEN [x \in 0..(W - 1) |-> Rat(ys + ye, 2)]
        ELSE IF Cardinality(valid_x) < W
        THEN medfilt(Interp(trace_y, valid_x, W), W)
        ELSE medfilt(trace_y, W)

-----------------------------------------------------------------------------
(* extract_trace_viterbi *)

\* "Cluster nearby rows": walking the True rows of a column upwards, a row opens
\* a new cluster when it lies more than 3 below the row before it, which is when
\* none of the 3 rows above it is True
ClusterStarts(rows) == {r \in rows : \A q \in (r - 3)..(r - 1) : q \notin rows}

\* clusters: int(np.mean(cluster)) of every cluster, top to bottom; a cluster
\* runs from the row that opens it to the row before the next opening
ClusterRows(rows, region_h) ==
    LET starts == SortedSeq(ClusterStarts(rows))
    IN  [k \in 1..Len(starts) |->
            RFloor(Mean({r \in rows : /\ r >= starts[k]
                                      /\ (k < Len(starts) => r < starts[k + 1])},
                        region_h))]

\* "Build candidates per column"
BuildCandidates(mask, ys, ye) ==
    [x \in 0..(mask.W - 1) |-> ClusterRows(RegionRows(mask, ys, ye, x), ye - ys)]

\* "for lx in range(x-1, -1, -1)": the column the search stops at, or -1
RECURSIVE NearestLeft(_, _)
NearestLeft(candidates, lx) ==
    IF lx < 0 THEN -1
    ELSE IF Len(candidates[lx]) > 0 THEN lx
    ELSE NearestLeft(candidates, lx - 1)

\* "for rx in range(x+1, W)": the column the search stops at, or W
RECURSIVE NearestRight(_, _, _)
NearestRight(candidates, rx, W) ==
    IF rx > W - 1 THEN W
    ELSE IF Len(candidates[rx]) > 0 THEN rx
    ELSE NearestRight(candidates, rx + 1, W)

\* the fill with region_h in place of region_h // 2 for a mask without candidates
RECURSIVE FillCandidatesBelowRegion(_, _, _, _)
FillCandidatesBelowRegion(candidates, x, W, region_h) ==
    IF x > W - 1 THEN candidates
    ELSE IF Len(candidates[x]) # 0
    THEN FillCandidatesBelowRegion(candidates, x + 1, W, region_h)
    ELSE LET lx == NearestLeft(candidates, x - 1)
             rx == NearestRight(candidates, x + 1, W)
             filled ==
                 IF lx >= 0 /\ rx < W
                 THEN <<(candidates[lx][1] + candidates[rx][1]) \div 2>>
                 ELSE IF lx >= 0 THEN <<candidates[lx][1]>>
                 ELSE IF rx < W THEN <<candidates[rx][1]>>
                 ELSE <<region_h>>
         IN  FillCandidatesBelowRegion([candidates EXCEPT ![x] = filled], x + 1, W, region_h)

\* "Fill empty columns by interpolation": the loop runs left to right and writes
\* into candidates, so the left search reads columns it has already filled
RECURSIVE FillCandidates(_, _, _, _)
FillCandidates(candidates, x, W, region_h) ==
    IF x > W - 1 THEN candidates
    ELSE IF Len(candidates[x]) # 0 THEN FillCandidates(candidates, x + 1, W, region_h)
    ELSE LET lx == NearestLeft(candidates, x - 1)
             rx == NearestRight(candidates, x + 1, W)
             filled ==
                 IF lx >= 0 /\ rx < W
                 THEN <<(candidates[lx][1] + candidates[rx][1]) \div 2>>
                 ELSE IF lx >= 0 THEN <<candidates[lx][1]>>
                 ELSE IF rx < W THEN <<candidates[rx][1]>>
                 ELSE <<region_h \div 2>>
         IN  FillCandidates([candidates EXCEPT ![x] = filled], x + 1, W, region_h)

Candidates(mask, ys, ye) ==
    FillCandidates(BuildCandidates(mask, ys, ye), 0, mask.W, ye - ys)

\* pred[(0, y)] = None
None == <<-1, -1>>

\* The dictionaries cost and pred share their keys (x, y); dp maps a key to
\* [cost, pred].  Costs are kept doubled (cost2 = 2 * cost) so that the
\* transition cost jump * 0.5 + 1 is the integer jump + 2.
DPBase(candidates) ==
    [key \in {<<0, y>> : y \in Range(candidates[0])} |-> [cost2 |-> 0, pred |-> None]]

\* the inner loop over y_prev with the test "jump > max_jump: continue" left out
BestPredAnyJump(dp, candidates, x, y_curr, mj) ==
    LET prev == candidates[x - 1]
        ok == {k \in 1..Len(prev) : <<x - 1, prev[k]>> \in DOMAIN dp}
        c(k) == dp[<<x - 1, prev[k]>>].cost2 + Abs(y_curr - prev[k]) + 2
    IN  IF ok = {} THEN [found |-> FALSE, cost2 |-> 0, pred |-> None]
        ELSE LET b == CHOOSE k \in ok :
                          \A j \in ok : c(k) < c(j) \/ (c(k) = c(j) /\ k <= j)
             IN  [found |-> TRUE, cost2 |-> c(b), pred |-> <<x - 1, prev[b]>>]

\* the inner loop over y_prev with a y_prev that has no cost counted as cost 0
\* instead of INF
BestPredUnreached(dp, candidates, x, y_curr, mj) ==
    LET prev == candidates[x - 1]
        ok == {k \in 1..Len(prev) : Abs(y_curr - prev[k]) <= mj}
        c(k) == (IF <<x - 1, prev[k]>> \in DOMAIN dp THEN dp[<<x - 1, prev[k]>>].cost2 ELSE 0)
                + Abs(y_curr - prev[k]) + 2
    IN  IF ok = {} THEN [found |-> FALSE, cost2 |-> 0, pred |-> None]
        ELSE LET b == CHOOSE k \in ok :
                          \A j \in ok : c(k) < c(j) \/ (c(k) = c(j) /\ k <= j)
             IN  [found |-> TRUE, cost2 |-> c(b), pred |-> <<x - 1, prev[b]>>]

\* the inner loop over y_prev stopping at the first y_prev within max_jump that
\* has a cost, whatever its cost
BestPredFirstInRange(dp, candidates, x, y_curr, mj) ==
    LET prev == candidates[x - 1]
        ok == {k \in 1..Len(prev) :
                  Abs(y_curr - prev[k]) <= mj /\ <<x - 1, prev[k]>> \in DOMAIN dp}
        c(k) == dp[<<x - 1, prev[k]>>].cost2 + Abs(y_curr - prev[k]) + 2
    IN  IF ok = {} THEN [found |-> FALSE, cost2 |-> 0, pred |-> None]
        ELSE LET b == CHOOSE k \in ok : \A j \in ok : k <= j
             IN  [found |-> TRUE, cost2 |-> c(b), pred |-> <<x - 1, prev[b]>>]

\* the inner loop over y_prev for one y_curr: the first y_prev of least cost
\* among those within max_jump that have a cost (c < min_cost is strict)
BestPred(dp, candidates, x, y_curr, mj) ==
    LET prev == candidates[x - 1]
        ok == {k \in 1..Len(prev) :
                  Abs(y_curr - prev[k]) <= mj /\ <<x - 1, prev[k]>> \in DOMAIN dp}
        c(k) == dp[<<x - 1, prev[k]>>].cost2 + Abs(y_curr - prev[k]) + 2
    IN  IF ok = {} THEN [found |-> FALSE, cost2 |-> 0, pred |-> None]
        ELSE LET b == CHOOSE k \in ok :
                          \A j \in ok : c(k) < c(j) \/ (c(k) = c(j) /\ k <= j)
             IN  [found |-> TRUE, cost2 |-> c(b), pred |-> <<x - 1, prev[b]>>]

\* one iteration of "for x in range(1, W)"
DPColumn(dp, candidates, x, mj) ==
    LET reached == {y \in Range(candidates[x]) : BestPred(dp, candidates, x, y, mj).found}
    IN  dp @@ [key \in {<<x, y>> : y \in reached} |->
                  LET b == BestPred(dp, candidates, x, key[2], mj)
                  IN  [cost2 |-> b.cost2, pred |-> b.pred]]

\* "for x in range(1, W)".  The test on the keys is never true (column 0 always
\* has its keys); it makes the table of column x a value before column x + 1 is
\* visited, as the loop does.
RECURSIVE DPForward(_, _, _, _, _)
DPForward(dp, candidates, x, W, mj) ==
    IF x > W - 1 THEN dp
    ELSE LET next == DPColumn(dp, candidates, x, mj)
         IN  IF DOMAIN next = {} THEN next
             ELSE DPForward(next, candidates, x + 1, W, mj)

DP(candidates, W, mj) == DPForward(DPBase(candidates), candidates, 1, W, mj)

\* end_points: the keys of the last column that have a cost
EndPoints(dp, W) == {key \in DOMAIN dp : key[1] = W - 1}

\* min(end_points, key=cost): the first of least cost in insertion order, which
\* for the last column is the order of its candidates
EndPoint(dp, candidates, W) ==
    LET last == candidates[W - 1]
        ok == {k \in 1..Len(last) : <<W - 1, last[k]>> \in DOMAIN dp}
        c(k) == dp[<<W - 1, last[k]>>].cost2
        b == CHOOSE k \in ok : \A j \in ok : c(k) < c(j) \/ (c(k) = c(j) /\ k <= j)
    IN  <<W - 1, last[b]>>

\* "while curr is not None: path.append(curr[1] + y_start); curr = pred.get(curr)"
\* followed by path[::-1]
RECURSIVE Backtrack(_, _, _)
Backtrack(dp, curr, ys) ==
    IF curr = None THEN <<>>
    ELSE Append(Backtrack(dp, IF curr \in DOMAIN dp THEN dp[curr].pred ELSE None, ys),
                curr[2] + ys)

\* np.pad(result, (0, W - len(result)), mode='edge') and result[:W]
PadEdge(path, W) ==
    [x \in 0..(W - 1) |-> IF x + 1 <= Len(path) THEN RInt(path[x + 1])
                          ELSE RInt(path[Len(path)])]

\* TRUE when the dynamic program reached a state of the last column
DPReached(mask, ys, ye, mj) ==
    EndPoints(DP(Candidates(mask, ys, ye), mask.W, mj), mask.W) # {}

extract_trace_viterbi(mask, ys, ye, mj) ==
    LET W == mask.W
        candidates == Candidates(mask, ys, ye)
        dp == DP(candidates, W, mj)
    IN  IF EndPoints(dp, W) = {}
        THEN extract_trace_centroid(mask, ys, ye)
        ELSE PadEdge(Backtrack(dp, EndPoint(dp, candidates, W), ys), W)

-----------------------------------------------------------------------------
(* detect_trace_pixels_color and create_color_mask.  A pixel is an <<R, G, B>>   *)
(* triple; image.px maps each <<row, column>> to one.                            *)

Pixels(H, W) == (0..(H - 1)) \X (0..(W - 1))

\* brightness = (R + G + B) / 3 < 80
is_dark(c) == c[1] + c[2] + c[3] < 3 * 80

\* color_balance < 60
is_neutral(c) == Abs(c[1] - c[2]) + Abs(c[2] - c[3]) + Abs(c[1] - c[3]) < 60

is_not_pink(c) == ~(c[1] > c[2] + 20 /\ c[1] > c[3] + 20)

black_trace(c) == is_dark(c) /\ (is_neutral(c) \/ is_not_pink(c))

\* (B > R * 1.5) & (B > G * 1.2) & (B > 150)
is_blue(c) == 2 * c[3] > 3 * c[1] /\ 5 * c[3] > 6 * c[2] /\ c[3] > 150

is_dark_blue(c) == c[3] > c[1] /\ c[3] > c[2] /\ c[1] < 120 /\ c[2] < 120 /\ c[3] > 100

\* (G > R * 1.3) & (G > B * 1.3) & (G > 100)
is_green(c) == 10 * c[2] > 13 * c[1] /\ 10 * c[2] > 13 * c[3] /\ c[2] > 100

TraceRule(c) == black_trace(c) \/ is_blue(c) \/ is_dark_blue(c) \/ is_green(c)

\* scipy.ndimage.binary_erosion with a 2x2 structure of ones (its centre is the
\* element [1, 1]; positions outside the array count as False)
binary_erosion(on) ==
    {p \in on : /\ <<p[1] - 1, p[2] - 1>> \in on
                /\ <<p[1] - 1, p[2]>> \in on
                /\ <<p[1], p[2] - 1>> \in on}

\* a dilation that paints the block below and to the right of each position
binary_dilation_forward(on) ==
    UNION {{p, <<p[1] + 1, p[2]>>, <<p[1], p[2] + 1>>, <<p[1] + 1, p[2] + 1>>} : p \in on}

\* scipy.ndimage.binary_dilation with the same structure, as binary_opening
\* applies it: every eroded position paints back its 2x2 block
binary_dilation(on) ==
    UNION {{<<p[1] - 1, p[2] - 1>>, <<p[1] - 1, p[2]>>, <<p[1], p[2] - 1>>, p} : p \in on}

binary_opening(on) == binary_dilation(binary_erosion(on))

detect_trace_pixels_color(img) ==
    [H |-> img.H, W |-> img.W,
     on |-> binary_opening({p \in Pixels(img.H, img.W) : TraceRule(img.px[p])})]

\* distance = sqrt(dR^2 + dG^2 + dB^2) < tolerance
ColorMatches(c, target_rgb, tolerance) ==
    (c[1] - target_rgb[1]) * (c[1] - target_rgb[1])
    + (c[2] - target_rgb[2]) * (c[2] - target_rgb[2])
    + (c[3] - target_rgb[3]) * (c[3] - target_rgb[3]) < tolerance * tolerance

create_color_mask(img, target_colors, tolerance) ==
    [H |-> img.H, W |-> img.W,
     on |-> {p \in Pixels(img.H, img.W) :
                \E k \in 1..Len(target_colors) :
                    ColorMatches(img.px[p], target_colors[k], tolerance)}]

\* np.sum(mask)
PixelCount(mask) == Cardinality(mask.on)

-----------------------------------------------------------------------------
(* Step 1b of extract_signal: the vision fallback.  reply is what              *)
(* identify_trace_colors did: it raised, returned None, or returned a          *)
(* TraceColorInfo with the list colors.                                        *)

\* if trace_pixel_count < 500 and image_bytes is not None
VisionFloor == 500

VisionTolerance == 60

VisionConsulted(count, bytes) == count < VisionFloor /\ bytes

\* the try block with ">=" where the code compares the two counts with ">"
VisionOverrideOnTie(img, mask, count, reply) ==
    LET keep == [mask |-> mask, count |-> count, method |-> "viterbi_color"]
    IN  IF reply.outcome = "info" /\ Len(reply.colors) > 0
        THEN LET vision_mask == create_color_mask(img, reply.colors, VisionTolerance)
                 vision_pixel_count == PixelCount(vision_mask)
             IN  IF vision_pixel_count >= count
                 THEN [mask |-> vision_mask, count |-> vision_pixel_count,
                       method |-> "viterbi_vision"]
                 ELSE keep
        ELSE keep

\* the body of the try block: the mask, count and method after it
VisionOverride(img, mask, count, reply) ==
    LET keep == [mask |-> mask, count |-> count, method |-> "viterbi_color"]
    IN  IF reply.outcome = "info" /\ Len(reply.colors) > 0
        THEN LET vision_mask == create_color_mask(img, reply.colors, VisionTolerance)
                 vision_pixel_count == PixelCount(vision_mask)
             IN  IF vision_pixel_count > count
                 THEN [mask |-> vision_mask, count |-> vision_pixel_count,
                       method |-> "viterbi_vision"]
                 ELSE keep
        ELSE keep

-----------------------------------------------------------------------------
(* detect_grid_spacing_robust.  The profiles, their autocorrelation and the    *)
(* peak search are numpy/scipy calls; m records what they measured:            *)
(*   col_std_ok, row_std_ok   np.std(profile) >= 1                             *)
(*   col_peak, row_peak       peaks[0], an index into autocorr[5:max_spacing], *)
(*                            or -1 when find_peaks found none                 *)
(*   y0, y1, y2               autocorr at spacing-1, spacing, spacing+1; y1 is *)
(*                            props['peak_heights'][0]                         *)

min_spacing == 5

max_spacing(W) == Min2(100, W \div 10)

\* len(autocorr[min_spacing:max_spacing]) for an autocorrelation of length len
SliceLen(len, W) == Max2(0, Min2(len, max_spacing(W)) - min_spacing)

NoSpacing == [spacing |-> NaN, confidence |-> RInt(0), found |-> FALSE]

\* lines 160-171 with the confidence left uncapped: peak height * 1.5
FromPeakUncapped(peak, m, len) ==
    LET spacing == peak + min_spacing
        confidence == RMul(m.y1, Rat(3, 2))
        denom == RAdd(RSub(m.y0, RMul(RInt(2), m.y1)), m.y2)
        refined == IF spacing > 1 /\ spacing < len - 1 /\ denom.n # 0
                   THEN RAdd(RInt(spacing),
                             RMul(Rat(1, 2), RDiv(RSub(m.y0, m.y2), denom)))
                   ELSE RInt(spacing)
    IN  [spacing |-> refined, confidence |-> confidence, found |-> TRUE]

\* lines 160-171: from the first peak to the returned pair
FromPeak(peak, m, len) ==
    LET spacing == peak + min_spacing
        confidence == PyMin(RInt(1), RMul(m.y1, Rat(3, 2)))
        denom == RAdd(RSub(m.y0, RMul(RInt(2), m.y1)), m.y2)
        refined == IF spacing > 1 /\ spacing < len - 1 /\ denom.n # 0
                   THEN RAdd(RInt(spacing),
                             RMul(Rat(1, 2), RDiv(RSub(m.y0, m.y2), denom)))
                   ELSE RInt(spacing)
    IN  [spacing |-> refined, confidence |-> confidence, found |-> TRUE]

detect_grid_spacing_robust(m, H, W) ==
    IF ~m.col_std_ok THEN NoSpacing
    ELSE IF m.col_peak >= 0 THEN FromPeak(m.col_peak, m, W)
    ELSE IF ~m.row_std_ok THEN NoSpacing
    ELSE IF m.row_peak >= 0 THEN FromPeak(m.row_peak, m, H)
    ELSE NoSpacing

\* np.correlate(profile, profile) raises ValueError for an empty profile: the
\* column profile of an image without columns (line 127), or the row profile of
\* an image without rows (line 147), which is reached because the column
\* profile of such an image is NaN throughout and shows no peak
GridRaises(img) == img.H = 0 \/ img.W = 0

\* the estimate with an integer division: W // 250
EstimateFloorDiv(W) == RInt(W \div 250)

\* lines 608-614: "Estimate from image size"
EstimateFromWidth(W) == Rat(W, 250)

LowConfidence == Rat(3, 10)

GridUndetected(g) == ~g.found \/ RLt(g.spacing, RInt(3))

\* step 2 without the substitution: the estimator's pair is used as it is
SubstituteNothing(g, W) == [spacing |-> g.spacing, confidence |-> g.confidence]

SubstituteGrid(g, W) ==
    IF GridUndetected(g)
    THEN [spacing |-> EstimateFromWidth(W), confidence |-> LowConfidence]
    ELSE [spacing |-> g.spacing, confidence |-> g.confidence]

-----------------------------------------------------------------------------
(* Steps 5 to 9 of extract_signal *)

\* baseline_y = (y_start + y_end) / 2
baseline_y(ys, ye) == Rat(ys + ye, 2)

\* the conversion with the voltage scale left out: deviation_mm * 1000
ToMicrovoltsUnscaled(deviation_px, spacing, gain) ==
    RMul(RDiv(deviation_px, spacing), RInt(1000))

\* deviation_px / grid_spacing_px / voltage_scale_mm_mV * 1000
ToMicrovolts(deviation_px, spacing, gain) ==
    RMul(RDiv(RDiv(deviation_px, spacing), RInt(gain)), RInt(1000))

\* trace_uV, one value per column
TraceMicrovolts(path, ys, ye, spacing, gain) ==
    [x \in DOMAIN path |-> ToMicrovolts(RSub(baseline_y(ys, ye), path[x]), spacing, gain)]

\* duration_s = (W / grid_spacing_px) / paper_speed_mm_s
Duration(W, spacing, speed) == RDiv(RDiv(RInt(W), spacing), RInt(speed))

\* int(duration_s) * target_fs: the duration truncated before it is multiplied
NumTargetWholeSeconds(duration, fs) ==
    (IF duration.n >= 0 THEN duration.n \div duration.d
     ELSE -((-duration.n) \div duration.d)) * fs

\* int(duration_s * target_fs), for a product that is a number
NumTarget(duration, fs) ==
    LET r == RMul(duration, RInt(fs))
    IN  IF r.n >= 0 THEN r.n \div r.d ELSE -((-r.n) \div r.d)

\* int() of NaN, np.linspace with a negative count and np.max of an empty array
\* all raise ValueError
ResampleRaises(duration, fs) == IsNaN(duration) \/ NumTarget(duration, fs) <= 0

\* signal_uV[j] before baseline correction: interp1d(t_original, trace_uV,
\* kind='linear', fill_value='extrapolate')(t_target)[j], with t_original the W
\* and t_target the n evenly spaced instants of [0, duration_s].  A single
\* column (W = 1) leaves the slope 0/0.
Resampled(trace_uV, W, n, j) ==
    IF W = 1 THEN NaN
    ELSE IF n = 1 THEN trace_uV[0]
    ELSE LET pos == Rat(j * (W - 1), n - 1)
             i == Min2(RFloor(pos), W - 2)
         IN  RAdd(trace_uV[i],
                  RMul(RSub(trace_uV[i + 1], trace_uV[i]), RSub(pos, RInt(i))))

\* The resampled signal is linear between two columns, so its largest and its
\* smallest sample are the first or the last sample of some column interval:
\* the samples next to the instants of t_original.
ExtremeSamples(W, n) ==
    ({0, n - 1} \cup
     UNION {{(i * (n - 1)) \div (W - 1), (i * (n - 1)) \div (W - 1) + 1} : i \in 1..(W - 2)})
    \cap (0..(n - 1))

RMaxOf(S) == IF \E v \in S : IsNaN(v) THEN NaN ELSE CHOOSE v \in S : \A w \in S : RLe(w, v)

RMinOf(S) == IF \E v \in S : IsNaN(v) THEN NaN ELSE CHOOSE v \in S : \A w \in S : RLe(v, w)

\* np.max(signal_uV) - np.min(signal_uV) of the signal scaled by factor;
\* subtracting the median (step 7) moves both alike
SignalRange(trace_uV, W, n, factor) ==
    LET S == {RMul(Resampled(trace_uV, W, n, j), factor) : j \in ExtremeSamples(W, n)}
    IN  RSub(RMaxOf(S), RMinOf(S))

\* np.median(signal_uV) of the resampled signal: NaN when a sample is NaN, the
\* common value when all samples are equal, otherwise the middle one of the
\* sorted samples (the mean of the two middle ones for an even count)
Median(trace_uV, W, n) ==
    LET S == {Resampled(trace_uV, W, n, j) : j \in ExtremeSamples(W, n)}
    IN  IF \E v \in S : IsNaN(v) THEN NaN
        ELSE IF RMinOf(S) = RMaxOf(S) THEN RMinOf(S)
        ELSE LET All == {Resampled(trace_uV, W, n, j) : j \in 0..(n - 1)}
                 Below(v) == Cardinality({j \in 0..(n - 1) :
                                             RLt(Resampled(trace_uV, W, n, j), v)})
                 NotAbove(v) == Cardinality({j \in 0..(n - 1) :
                                                RLe(Resampled(trace_uV, W, n, j), v)})
                 Kth(k) == CHOOSE v \in All : Below(v) <= k /\ k < NotAbove(v)
             IN  IF n % 2 = 1 THEN Kth((n - 1) \div 2)
                 ELSE RMul(RAdd(Kth(n \div 2 - 1), Kth(n \div 2)), Rat(1, 2))

\* signal_uV[j] as returned: resampled (step 6), less the median (step 7),
\* times the normalization factor (step 8); c is the record of Calibration
signal_uV(c, W, j) ==
    RMul(RSub(Resampled(c.trace_uV, W, c.n, j), Median(c.trace_uV, W, c.n)),
         c.scale_factor)

\* step 8 without the test "if signal_range > 0"
ScaleFactorUnguarded(signal_range) ==
    IF RLt(signal_range, RInt(200)) THEN RDiv(RInt(1500), signal_range)
    ELSE IF RLt(RInt(8000), signal_range) THEN RDiv(RInt(3000), signal_range)
    ELSE RInt(1)

\* step 8: the factor signal_uV is multiplied by (1 when it is left alone)
ScaleFactor(signal_range) ==
    IF RLt(signal_range, RInt(200))
    THEN IF RLt(RInt(0), signal_range) THEN RDiv(RInt(1500), signal_range) ELSE RInt(1)
    ELSE IF RLt(RInt(8000), signal_range) THEN RDiv(RInt(3000), signal_range)
    ELSE RInt(1)

\* coverage = np.sum(~np.isnan(trace_px)) / W
Coverage(path, W) == Rat(Cardinality({x \in DOMAIN path : ~IsNaN(path[x])}), W)

\* min(1.0, final_range / 2000) for every range, without the fixed 0.3 of a
\* range of 500 or less
RangeQualityUnfloored(final_range) == PyMin(RInt(1), RDiv(final_range, RInt(2000)))

\* min(1.0, final_range / 2000) if final_range > 500 else 0.3
RangeQuality(final_range) ==
    IF RLt(RInt(500), final_range)
    THEN PyMin(RInt(1), RDiv(final_range, RInt(2000)))
    ELSE Rat(3, 10)

QualityScore(confidence, coverage, range_quality) ==
    RAdd(RAdd(RMul(confidence, Rat(3, 10)), RMul(coverage, Rat(4, 10))),
         RMul(range_quality, Rat(3, 10)))

\* steps 5 to 8 as one record of locals
Calibration(path, W, ys, ye, spacing, speed, gain, fs) ==
    LET duration == Duration(W, spacing, speed)
    IN  IF ResampleRaises(duration, fs)
        THEN [computed |-> TRUE, raised |-> TRUE]
        ELSE LET n == NumTarget(duration, fs)
                 trace_uV == TraceMicrovolts(path, ys, ye, spacing, gain)
                 signal_range == SignalRange(trace_uV, W, n, RInt(1))
                 factor == ScaleFactor(signal_range)
             IN  [computed |-> TRUE, raised |-> FALSE,
                  trace_uV |-> trace_uV, duration_s |-> duration, n |-> n,
                  signal_range |-> signal_range, scale_factor |-> factor,
                  final_range |-> SignalRange(trace_uV, W, n, factor)]

-----------------------------------------------------------------------------
(* Values of the variables a call does not use *)

NoImage == [H |-> 0, W |-> 0, px |-> <<>>]

NoMask == [H |-> 0, W |-> 0, on |-> {}]

NoCall == [called |-> FALSE, outcome |-> "none", colors |-> <<>>]

NoGrid == NoSpacing

NoPath == <<>>

NoCal == [computed |-> FALSE]

NoResult == [returned |-> FALSE]

NoRequest == [endpoint |-> "none"]

NoResponse == [status |-> 0, success |-> FALSE, error |-> "none"]

NoRefCall == [fn |-> "none"]

NoRefResult == [returned |-> FALSE]

RefIdle == ref_call = NoRefCall /\ ref_result = NoRefResult

\* the watcher thread before its loop: "last_image_hash = None" is hash 0
WatcherStart ==
    [pc |-> "poll", last_image_hash |-> 0, ecg_json |-> 0, made |-> 0, loaded |-> 0,
     returned_true |-> 0]

HandlerIdle == [pc |-> "idle", floor |-> 0, reply |-> 0]

\* the clipboard watcher not running
WatcherIdle ==
    /\ latest_ecg = 0 /\ ecg_counter = 0 /\ ready_seen = 0
    /\ watcher = [WatcherStart EXCEPT !.pc = "off"]
    /\ handler = <<>>

-----------------------------------------------------------------------------
(* The pure functions called on their own: inputs drawn from bounded sets *)

StripMaxH == 6

PathMaxH == 5

FnMaxJump == 2

\* every mask of the given shape
AllMasks(H, W) == {[H |-> H, W |-> W, on |-> on] : on \in SUBSET Pixels(H, W)}

\* the masks of the given shape whose columns hold at most two True pixels each
ThinMasks(H, W) ==
    {m \in {[H |-> H, W |-> W, on |-> UNION {{<<y, x>> : y \in f[x]} : x \in 0..(W - 1)}] :
               f \in [0..(W - 1) -> {r \in SUBSET (0..(H - 1)) : Cardinality(r) <= 2}]} : TRUE}

StripMasks == UNION {AllMasks(H, W) : H \in 1..StripMaxH, W \in {1, 2}}

\* masks of 4 columns whose two middle columns are empty
GapMasks ==
    {[H |-> PathMaxH, W |-> 4, on |-> {<<a, 0>>, <<b, 3>>}] : a, b \in 0..(PathMaxH - 1)}

PathMasks == UNION {ThinMasks(H, W) : H \in {2, PathMaxH}, W \in {1, 2, 3}} \cup GapMasks

\* masks of 3 columns whose middle column holds two clusters, for a max_jump
\* that reaches both from one row
ForkMasks ==
    {[H |-> PathMaxH + 1, W |-> 3, on |-> {<<a, 0>>, <<b, 1>>, <<b + 4, 1>>, <<c, 2>>}] :
        a \in 0..PathMaxH, b \in 0..(PathMaxH - 4), c \in 0..PathMaxH}

PathRegions(H) == {r \in {<<0, H>>, <<1, H - 1>>} : r[1] < r[2]}

FnIdle ==
    /\ image = NoImage /\ image_bytes = FALSE
    /\ paper_speed_mm_s = 0 /\ voltage_scale_mm_mV = 0 /\ target_fs = 0
    /\ trace_pixel_count = 0 /\ method = "" /\ color_info = NoCall
    /\ grid = NoGrid /\ grid_spacing_px = NaN /\ grid_confidence = NaN
    /\ cal = NoCal /\ result = NoResult
    /\ request = NoRequest /\ response = NoResponse

FnInit ==
    /\ FnIdle /\ RefIdle /\ WatcherIdle
    /\ trace_px = NoPath /\ path_source = "none"
    /\ \/ /\ pc = "strip_call"
          /\ trace_mask \in StripMasks
          /\ y_start = 0 /\ y_end = 0 /\ max_jump = 0
       \/ /\ pc = "path_call"
          /\ trace_mask \in PathMasks
          /\ \E r \in PathRegions(trace_mask.H) : y_start = r[1] /\ y_end = r[2]
          /\ max_jump \in {1, FnMaxJump}
       \/ /\ pc = "path_call"
          /\ trace_mask \in ForkMasks
          /\ y_start = 0 /\ y_end = trace_mask.H
          /\ max_jump = FnMaxJump + 1

pipeline_vars == <<image, image_bytes, paper_speed_mm_s, voltage_scale_mm_mV, target_fs,
                   trace_pixel_count, method, color_info, grid, grid_spacing_px,
                   grid_confidence, cal, result, request, response,
                   ref_call, ref_result, watcher_vars>>

\* y_start, y_end = find_rhythm_strip(trace_mask)
FnStrip ==
    /\ pc = "strip_call"
    /\ LET r == find_rhythm_strip(trace_mask)
       IN  y_start' = r.y_start /\ y_end' = r.y_end
    /\ pc' = "strip_done"
    /\ UNCHANGED <<pipeline_vars, trace_mask, max_jump, trace_px, path_source>>

\* trace_px = extract_trace_viterbi(trace_mask, y_start, y_end, max_jump)
FnViterbi ==
    /\ pc = "path_call"
    /\ trace_px' = extract_trace_viterbi(trace_mask, y_start, y_end, max_jump)
    /\ path_source' = IF DPReached(trace_mask, y_start, y_end, max_jump)
                      THEN "dp" ELSE "centroid"
    /\ pc' = "path_done"
    /\ UNCHANGED <<pipeline_vars, trace_mask, y_start, y_end, max_jump>>

\* trace_px = extract_trace_centroid(trace_mask, y_start, y_end)
FnCentroid ==
    /\ pc = "path_call"
    /\ trace_px' = extract_trace_centroid(trace_mask, y_start, y_end)
    /\ path_source' = "centroid_call"
    /\ pc' = "path_done"
    /\ UNCHANGED <<pipeline_vars, trace_mask, y_start, y_end, max_jump>>

FnNext == FnStrip \/ FnViterbi \/ FnCentroid

SpecFn == FnInit /\ [][FnNext]_vars

-----------------------------------------------------------------------------
(* extract_signal: the inputs *)

White == <<255, 255, 255>>

Black == <<0, 0, 0>>

Pink == <<255, 182, 193>>

NearWhite == <<250, 250, 250>>

\* Tall images: 5 bands of TallBand rows, 2 pairs of equal columns, black ink on
\* white.  A column is blank, all ink, or holds two ink rows at the top ("A"),
\* one row below the top ("A1") or at the bottom ("B") of the middle band.
TallBand == 33

ColumnKinds == {"blank", "full", "A", "A1", "B"}

InkRows(kind, H) ==
    CASE kind = "blank" -> {}
      [] kind = "full" -> 0..(H - 1)
      [] kind = "A" -> {2 * (H \div 5), 2 * (H \div 5) + 1}
      [] kind = "A1" -> {2 * (H \div 5) + 1, 2 * (H \div 5) + 2}
      [] kind = "B" -> {3 * (H \div 5) - 2, 3 * (H \div 5) - 1}

TallImage(kinds) ==
    LET H == 5 * TallBand
    IN  [H |-> H, W |-> 4,
         px |-> [p \in Pixels(H, 4) |-> IF p[1] \in InkRows(kinds[p[2] \div 2], H)
                                        THEN Black ELSE White]]

TallImages == {TallImage(kinds) : kinds \in [0..1 -> ColumnKinds]}

\* Small images: every row is all ink or all white
SmallH == 6

SmallImage(H, W, ink) ==
    [H |-> H, W |-> W, px |-> [p \in Pixels(H, W) |-> IF p[1] \in ink THEN Black ELSE White]]

SmallImages ==
    {SmallImage(H, W, ink) : H \in {SmallH}, W \in {1, 2}, ink \in SUBSET (0..(SmallH - 1))}
    \cup {SmallImage(3, W, ink) : W \in {1, 2}, ink \in SUBSET (0..2)}
    \cup {SmallImage(1, W, ink) : W \in {1, 2}, ink \in SUBSET {0}}

\* Wide images: 10 rows, a pink grid line every 6th column, and a two-row trace
\* that is absent, level, cut off half way, or one row lower in the right half
WideW == 80

TraceKinds == {"none", "flat", "half", "step"}

WideInk(kind, p) ==
    CASE kind = "none" -> FALSE
      [] kind = "flat" -> p[1] \in {4, 5}
      [] kind = "half" -> p[1] \in {4, 5} /\ 2 * p[2] < WideW
      [] kind = "step" -> IF 2 * p[2] < WideW THEN p[1] \in {4, 5} ELSE p[1] \in {5, 6}

WideImage(kind) ==
    [H |-> 10, W |-> WideW,
     px |-> [p \in Pixels(10, WideW) |->
                IF WideInk(kind, p) THEN Black ELSE IF p[2] % 6 = 0 THEN Pink ELSE White]]

WideImages == {WideImage(kind) : kind \in TraceKinds}

Images == TallImages \cup SmallImages \cup WideImages

\* (paper_speed_mm_s, voltage_scale_mm_mV, target_fs)
Params == {<<25, 10, 500>>, <<50, 20, 250>>, <<20, 10, 100>>}

\* what identify_trace_colors can do
Replies ==
    {[called |-> TRUE, outcome |-> "raise", colors |-> <<>>],
     [called |-> TRUE, outcome |-> "none", colors |-> <<>>],
     [called |-> TRUE, outcome |-> "info", colors |-> <<>>],
     [called |-> TRUE, outcome |-> "info", colors |-> <<Black>>],
     [called |-> TRUE, outcome |-> "info", colors |-> <<NearWhite>>]}

\* what the numpy/scipy calls of detect_grid_spacing_robust can measure: a
\* profile that is flat or not, no peak or a first peak with its two neighbours
PeakShapes ==
    {<<Rat(1, 20), Rat(1, 10), Rat(1, 20)>>,
     <<Rat(3, 10), Rat(1, 2), Rat(1, 2)>>,
     <<Rat(1, 2), RInt(1), Rat(3, 4)>>}

Measurement(cs, cp, rs, rp, shape) ==
    [col_std_ok |-> cs, col_peak |-> cp, row_std_ok |-> rs, row_peak |-> rp,
     y0 |-> shape[1], y1 |-> shape[2], y2 |-> shape[3]]

FlatProfile == Measurement(FALSE, -1, FALSE, -1, <<RInt(0), RInt(0), RInt(0)>>)

\* find_peaks never reports the first or the last sample of the slice it is given
PeakIndices(len, W) == 1..(SliceLen(len, W) - 2)

\* an image of one colour has a constant profile; otherwise anything the slice
\* autocorr[min_spacing:max_spacing] leaves room for
Measurements(img) ==
    IF \A p \in Pixels(img.H, img.W) : img.px[p] = img.px[<<0, 0>>]
    THEN {FlatProfile}
    ELSE {FlatProfile}
         \cup {Measurement(TRUE, -1, rs, -1, <<RInt(0), RInt(0), RInt(0)>>) : rs \in BOOLEAN}
         \cup {Measurement(TRUE, cp, FALSE, -1, shape) :
                  cp \in PeakIndices(img.W, img.W), shape \in PeakShapes}
         \cup {Measurement(TRUE, -1, TRUE, rp, shape) :
                  rp \in PeakIndices(img.H, img.W), shape \in PeakShapes}

-----------------------------------------------------------------------------
(* extract_signal: one action per step *)

\* extract_trace_viterbi's default max_jump
DefaultMaxJump == 30

Init ==
    /\ pc = "call"
    /\ image \in Images
    /\ image_bytes \in BOOLEAN
    /\ \E p \in Params :
          paper_speed_mm_s = p[1] /\ voltage_scale_mm_mV = p[2] /\ target_fs = p[3]
    /\ trace_mask = NoMask /\ trace_pixel_count = 0 /\ method = "viterbi_color"
    /\ color_info = NoCall
    /\ grid = NoGrid /\ grid_spacing_px = NaN /\ grid_confidence = NaN
    /\ y_start = 0 /\ y_end = 0 /\ max_jump = DefaultMaxJump
    /\ trace_px = NoPath /\ path_source = "none"
    /\ cal = NoCal /\ result = NoResult
    /\ request = NoRequest /\ response = NoResponse
    /\ RefIdle /\ WatcherIdle

args == <<image, image_bytes, paper_speed_mm_s, voltage_scale_mm_mV, target_fs, max_jump,
          request, response, ref_call, ref_result, watcher_vars>>

\* Step 1: trace_mask = detect_trace_pixels_color(image)
Classify ==
    /\ pc = "call"
    /\ trace_mask' = detect_trace_pixels_color(image)
    /\ trace_pixel_count' = PixelCount(trace_mask')
    /\ pc' = "vision"
    /\ UNCHANGED <<args, method, color_info, grid, grid_spacing_px, grid_confidence,
                   y_start, y_end, trace_px, path_source, cal, result>>

\* Step 1b: the vision fallback; an exception inside the try block leaves the
\* mask as it was
VisionFallback ==
    /\ pc = "vision"
    /\ IF VisionConsulted(trace_pixel_count, image_bytes)
       THEN \E reply \in Replies :
               LET after == VisionOverride(image, trace_mask, trace_pixel_count, reply)
               IN  /\ color_info' = reply
                   /\ trace_mask' = after.mask
                   /\ trace_pixel_count' = after.count
                   /\ method' = after.method
       ELSE UNCHANGED <<color_info, trace_mask, trace_pixel_count, method>>
    /\ pc' = "grid"
    /\ UNCHANGED <<args, grid, grid_spacing_px, grid_confidence,
                   y_start, y_end, trace_px, path_source, cal, result>>

\* Step 2: detect_grid_spacing_robust(image) and the estimate that replaces a
\* spacing that is None or below 3
DetectGrid ==
    /\ pc = "grid"
    /\ IF GridRaises(image)
       THEN /\ pc' = "raised"
            /\ UNCHANGED <<grid, grid_spacing_px, grid_confidence>>
       ELSE /\ \E m \in Measurements(image) :
                  grid' = detect_grid_spacing_robust(m, image.H, image.W)
            /\ grid_spacing_px' = SubstituteGrid(grid', image.W).spacing
            /\ grid_confidence' = SubstituteGrid(grid', image.W).confidence
            /\ pc' = "region"
    /\ UNCHANGED <<args, trace_mask, trace_pixel_count, method, color_info,
                   y_start, y_end, trace_px, path_source, cal, result>>

\* Step 3: y_start, y_end = find_rhythm_strip(trace_mask)
FindStrip ==
    /\ pc = "region"
    /\ LET r == find_rhythm_strip(trace_mask)
       IN  y_start' = r.y_start /\ y_end' = r.y_end
    /\ pc' = "path"
    /\ UNCHANGED <<args, trace_mask, trace_pixel_count, method, color_info, grid,
                   grid_spacing_px, grid_confidence, trace_px, path_source, cal, result>>

\* the except branch with the centroid taken over the whole image instead of
\* the region
TryViterbiWholeImage(mask, ys, ye, mj, raised) ==
    IF raised THEN extract_trace_centroid(mask, 0, mask.H)
    ELSE extract_trace_viterbi(mask, ys, ye, mj)

\* the try/except of step 4.  raised tells whether extract_trace_viterbi raised
\* an Exception (a MemoryError while the candidates or the cost table are
\* built, say) instead of returning.
TryViterbi(mask, ys, ye, mj, raised) ==
    IF raised THEN extract_trace_centroid(mask, ys, ye)
    ELSE extract_trace_viterbi(mask, ys, ye, mj)

\* Step 4: try extract_trace_viterbi, except Exception extract_trace_centroid.
\* path_source records where the path came from: the dynamic program ("dp"),
\* the centroid call inside extract_trace_viterbi ("centroid") or the except
\* branch ("except").
ExtractTrace ==
    /\ pc = "path"
    /\ \E raised \in BOOLEAN :
          /\ trace_px' = TryViterbi(trace_mask, y_start, y_end, max_jump, raised)
          /\ path_source' = IF raised THEN "except"
                            ELSE IF DPReached(trace_mask, y_start, y_end, max_jump)
                            THEN "dp" ELSE "centroid"
    /\ pc' = "calibrate"
    /\ UNCHANGED <<args, trace_mask, trace_pixel_count, method, color_info, grid,
                   grid_spacing_px, grid_confidence, y_start, y_end, cal, result>>

\* Steps 5 to 8: physical units, resampling, baseline correction, normalization
Calibrate ==
    /\ pc = "calibrate"
    /\ cal' = Calibration(trace_px, image.W, y_start, y_end, grid_spacing_px,
                          paper_speed_mm_s, voltage_scale_mm_mV, target_fs)
    /\ pc' = IF cal'.raised THEN "raised" ELSE "assess"
    /\ UNCHANGED <<args, trace_mask, trace_pixel_count, method, color_info, grid,
                   grid_spacing_px, grid_confidence, y_start, y_end, trace_px,
                   path_source, result>>

\* Step 9 and the return of the ExtractionResult
Assess ==
    /\ pc = "assess"
    /\ result' = [returned |-> TRUE,
                  signal |-> trace_px,
                  n_samples |-> cal.n,
                  fs |-> target_fs,
                  duration_s |-> cal.duration_s,
                  quality_score |-> QualityScore(grid_confidence,
                                                 Coverage(trace_px, image.W),
                                                 RangeQuality(cal.final_range)),
                  grid_spacing_px |-> grid_spacing_px,
                  method |-> method]
    /\ pc' = "done"
    /\ UNCHANGED <<args, trace_mask, trace_pixel_count, method, color_info, grid,
                   grid_spacing_px, grid_confidence, y_start, y_end, trace_px,
                   path_source, cal>>

Next == Classify \/ VisionFallback \/ DetectGrid \/ FindStrip \/ ExtractTrace
        \/ Calibrate \/ Assess

Spec == Init /\ [][Next]_vars

-----------------------------------------------------------------------------
(* app.py: the handlers of POST /api/digitize and POST /api/calibrate *)

\* a crop that json.loads and int() accept: the four corners
CropBox(x1, y1, x2, y2) == [kind |-> "box", x1 |-> x1, y1 |-> y1, x2 |-> x2, y2 |-> y2]

\* no crop field, a field json.loads rejects, a corner int() rejects
NoCrop == [kind |-> "absent"]

UnparsableCrop == [kind |-> "invalid_json"]

NonNumericCrop == [kind |-> "bad_int"]

\* the pictures of the requests: SmallH rows, 2 columns, black rows on white
ApiW == 2

ApiPictures == {SmallImage(SmallH, ApiW, ink) : ink \in SUBSET (0..(SmallH - 1))}

\* a decoded picture without rows
EmptyPicture == [H |-> 0, W |-> ApiW, px |-> [p \in Pixels(0, ApiW) |-> White]]

ApiCrops ==
    {NoCrop, UnparsableCrop, NonNumericCrop,
     CropBox(0, 1, ApiW, SmallH),             \* rows 1.., every column
     CropBox(1, 0, 1, SmallH),                \* x1 = x2
     CropBox(0, 2, ApiW, 2),                  \* y1 = y2
     CropBox(ApiW + 1, 0, ApiW + 3, SmallH),  \* right of the image
     CropBox(0, 4, ApiW, 1),                  \* y2 < y1
     CropBox(0, -SmallH, ApiW, -1)}           \* above the image

\* the index a[i:...] or a[...:i] of a sequence of length n stands for
SliceIndex(i, n) == IF i < 0 THEN Max2(i + n, 0) ELSE Min2(i, n)

\* image_array[y1:y2, x1:x2]
SliceImage(img, y1, y2, x1, x2) ==
    LET ys == SliceIndex(y1, img.H)
        xs == SliceIndex(x1, img.W)
        h == Max2(0, SliceIndex(y2, img.H) - ys)
        w == Max2(0, SliceIndex(x2, img.W) - xs)
    IN  [H |-> h, W |-> w,
         px |-> [p \in Pixels(h, w) |-> img.px[<<p[1] + ys, p[2] + xs>>]]]

\* lines 115-124: the picture after "Handle crop if provided"
ApplyCrop(img, crop) ==
    IF crop.kind = "box" THEN SliceImage(img, crop.y1, crop.y2, crop.x1, crop.x2)
    ELSE img

Clamp(v, lo, hi) == Max2(lo, Min2(v, hi))

\* the crop rectangle, its corners moved into the image, holds no pixel
DegenerateAfterClamping(crop, img) ==
    /\ crop.kind = "box"
    /\ \/ Clamp(crop.x1, 0, img.W) >= Clamp(crop.x2, 0, img.W)
       \/ Clamp(crop.y1, 0, img.H) >= Clamp(crop.y2, 0, img.H)

ZeroArea(img) == img.H = 0 \/ img.W = 0

DigitizeRequest(has_file, params_ok, decodes, picture, crop) ==
    [endpoint |-> "digitize", has_file |-> has_file, params_ok |-> params_ok,
     decodes |-> decodes, picture |-> picture, crop |-> crop]

CalibrateRequest(has_file, decodes, picture) ==
    [endpoint |-> "calibrate", has_file |-> has_file, params_ok |-> TRUE,
     decodes |-> decodes, picture |-> picture, crop |-> NoCrop]

Requests ==
    {DigitizeRequest(FALSE, TRUE, FALSE, NoImage, NoCrop),
     DigitizeRequest(TRUE, FALSE, TRUE, NoImage, NoCrop),
     DigitizeRequest(TRUE, TRUE, FALSE, NoImage, NoCrop),
     DigitizeRequest(TRUE, TRUE, TRUE, EmptyPicture, NoCrop),
     CalibrateRequest(FALSE, FALSE, NoImage),
     CalibrateRequest(TRUE, FALSE, NoImage),
     CalibrateRequest(TRUE, TRUE, EmptyPicture)}
    \cup {DigitizeRequest(TRUE, TRUE, TRUE, picture, crop) :
             picture \in ApiPictures, crop \in ApiCrops}
    \cup {CalibrateRequest(TRUE, TRUE, picture) : picture \in ApiPictures \cup WideImages}

Response(status, success, error) == [status |-> status, success |-> success, error |-> error]

LowConfidenceIssue == "Low confidence extraction - consider manual calibration"

\* digitize, lines 148-159: the issues list; signal_range is
\* max(samples) - min(samples) of result.signal_uV
Issues(res, signal_range) ==
    (IF RLt(res.quality_score, Rat(1, 2)) THEN {LowConfidenceIssue} ELSE {})
    \cup (IF RLt(res.grid_spacing_px, RInt(5))
          THEN {"Grid detection uncertain - verify paper speed setting"} ELSE {})
    \cup (IF RLt(signal_range, RInt(500))
          THEN {"Low amplitude signal - check voltage scale or image quality"}
          ELSE IF RLt(RInt(10000), signal_range)
          THEN {"High amplitude - possible clipping or incorrect scale"}
          ELSE {})

ApiInit ==
    /\ pc = "request"
    /\ request \in Requests
    /\ response = NoResponse
    /\ image = NoImage /\ image_bytes = FALSE
    /\ paper_speed_mm_s = 0 /\ voltage_scale_mm_mV = 0 /\ target_fs = 0
    /\ trace_mask = NoMask /\ trace_pixel_count = 0 /\ method = "viterbi_color"
    /\ color_info = NoCall
    /\ grid = NoGrid /\ grid_spacing_px = NaN /\ grid_confidence = NaN
    /\ y_start = 0 /\ y_end = 0 /\ max_jump = DefaultMaxJump
    /\ trace_px = NoPath /\ path_source = "none"
    /\ cal = NoCal /\ result = NoResult
    /\ RefIdle /\ WatcherIdle

locals == <<trace_mask, trace_pixel_count, method, color_info, grid, grid_spacing_px,
            grid_confidence, y_start, y_end, max_jump, trace_px, path_source, cal, result,
            ref_call, ref_result, watcher_vars>>

\* digitize, lines 73-91: the request is validated and the parameters parsed
DigitizeValidate ==
    /\ pc = "request" /\ request.endpoint = "digitize"
    /\ IF ~request.has_file
       THEN /\ response' = Response(400, FALSE, "No image provided")
            /\ pc' = "responded"
            /\ UNCHANGED <<paper_speed_mm_s, voltage_scale_mm_mV>>
       ELSE IF ~request.params_ok
       THEN /\ response' = Response(400, FALSE, "Invalid parameter")
            /\ pc' = "responded"
            /\ UNCHANGED <<paper_speed_mm_s, voltage_scale_mm_mV>>
       ELSE /\ paper_speed_mm_s' = 25 /\ voltage_scale_mm_mV' = 10
            /\ pc' = "load"
            /\ UNCHANGED response
    /\ UNCHANGED <<image, image_bytes, target_fs, request, locals>>

\* digitize, lines 93-134: the image is opened, converted and cropped, and
\* extract_signal is called with target_fs = 500 and the raw bytes.  Image.open
\* raises an OSError for bytes that are no image, int() a ValueError for a
\* corner that is no number; the handlers of lines 186-199 answer them.
DigitizeLoad ==
    /\ pc = "load"
    /\ IF ~request.decodes
       THEN /\ response' = Response(500, FALSE, "Processing failed")
            /\ pc' = "responded"
            /\ UNCHANGED <<image, image_bytes, target_fs>>
       ELSE IF request.crop.kind = "bad_int"
       THEN /\ response' = Response(400, FALSE, "ValueError")
            /\ pc' = "responded"
            /\ UNCHANGED <<image, image_bytes, target_fs>>
       ELSE /\ image' = ApplyCrop(request.picture, request.crop)
            /\ image_bytes' = TRUE
            /\ target_fs' = 500
            /\ pc' = "call"
            /\ UNCHANGED response
    /\ UNCHANGED <<paper_speed_mm_s, voltage_scale_mm_mV, request, locals>>

\* digitize, lines 136-191: the response built from the ExtractionResult, or
\* the 400 answer to a ValueError that left extract_signal
DigitizeRespond ==
    /\ pc \in {"done", "raised"} /\ request.endpoint = "digitize"
    /\ response' = IF pc = "done"
                   THEN [status |-> 200, success |-> TRUE, error |-> "none",
                         issues |-> Issues(result, cal.final_range)]
                   ELSE Response(400, FALSE, "ValueError")
    /\ pc' = "responded"
    /\ UNCHANGED <<image, image_bytes, paper_speed_mm_s, voltage_scale_mm_mV, target_fs,
                   request, locals>>

\* calibrate, lines 223-272.  "from .viterbi import detect_grid_spacing" names
\* a function viterbi.py does not define: the import raises ImportError inside
\* the try block and the handler of lines 267-272 answers it.
CalibrateHandle ==
    /\ pc = "request" /\ request.endpoint = "calibrate"
    /\ response' = IF ~request.has_file THEN Response(400, FALSE, "No image provided")
                   ELSE Response(500, FALSE, "ImportError")
    /\ pc' = "responded"
    /\ UNCHANGED <<image, image_bytes, paper_speed_mm_s, voltage_scale_mm_mV, target_fs,
                   request, locals>>

ApiNext == DigitizeValidate \/ DigitizeLoad \/ Classify \/ VisionFallback \/ DetectGrid
           \/ FindStrip \/ ExtractTrace \/ Calibrate \/ Assess \/ DigitizeRespond
           \/ CalibrateHandle

SpecApi == ApiInit /\ [][ApiNext]_vars

-----------------------------------------------------------------------------
(* realism_lab/pediatric_reference.py.  Ages are counted in thousandths of a   *)
(* year (age_range_years [0.083, 0.25] is low 83, high 250); a reference entry *)
(* {"p50": a, "p2": b, "p98": c} is the triple <<b, a, c>> = <<p2, p50, p98>>. *)

\* RIJNBEEK_REFERENCE["age_bins"]
age_bins ==
    <<
     [id |-> "0-1m", low |-> 0, high |-> 83,
      heart_rate |-> [boys |-> <<129, 160, 192>>, girls |-> <<136, 155, 216>>],
      pr_interval_ms |-> [boys |-> <<77, 99, 120>>, girls |-> <<91, 101, 121>>],
      qrs_duration_ms |-> [boys |-> <<50, 67, 85>>, girls |-> <<54, 67, 79>>],
      qtc_ms |-> [boys |-> <<378, 413, 448>>, girls |-> <<379, 420, 462>>],
      qrs_axis_deg |-> [boys |-> <<75, 97, 140>>, girls |-> <<63, 110, 155>>]],
     [id |-> "1-3m", low |-> 83, high |-> 250,
      heart_rate |-> [boys |-> <<126, 152, 187>>, girls |-> <<126, 154, 200>>],
      pr_interval_ms |-> [boys |-> <<85, 98, 120>>, girls |-> <<78, 99, 133>>],
      qrs_duration_ms |-> [boys |-> <<52, 64, 77>>, girls |-> <<48, 63, 77>>],
      qtc_ms |-> [boys |-> <<396, 419, 458>>, girls |-> <<381, 424, 454>>],
      qrs_axis_deg |-> [boys |-> <<37, 87, 138>>, girls |-> <<39, 80, 121>>]],
     [id |-> "3-6m", low |-> 250, high |-> 500,
      heart_rate |-> [boys |-> <<112, 134, 165>>, girls |-> <<122, 139, 191>>],
      pr_interval_ms |-> [boys |-> <<87, 106, 134>>, girls |-> <<84, 106, 127>>],
      qrs_duration_ms |-> [boys |-> <<54, 66, 85>>, girls |-> <<50, 64, 78>>],
      qtc_ms |-> [boys |-> <<391, 422, 453>>, girls |-> <<386, 418, 448>>],
      qrs_axis_deg |-> [boys |-> <<-6, 66, 107>>, girls |-> <<17, 70, 108>>]],
     [id |-> "6-12m", low |-> 500, high |-> 1000,
      heart_rate |-> [boys |-> <<106, 128, 194>>, girls |-> <<106, 134, 187>>],
      pr_interval_ms |-> [boys |-> <<82, 114, 141>>, girls |-> <<88, 109, 133>>],
      qrs_duration_ms |-> [boys |-> <<52, 69, 86>>, girls |-> <<52, 64, 80>>],
      qtc_ms |-> [boys |-> <<379, 411, 449>>, girls |-> <<381, 414, 446>>],
      qrs_axis_deg |-> [boys |-> <<14, 68, 122>>, girls |-> <<1, 67, 102>>]],
     [id |-> "1-3y", low |-> 1000, high |-> 3000,
      heart_rate |-> [boys |-> <<97, 119, 155>>, girls |-> <<95, 128, 178>>],
      pr_interval_ms |-> [boys |-> <<86, 118, 151>>, girls |-> <<78, 113, 147>>],
      qrs_duration_ms |-> [boys |-> <<54, 71, 88>>, girls |-> <<54, 68, 85>>],
      qtc_ms |-> [boys |-> <<383, 412, 455>>, girls |-> <<381, 417, 447>>],
      qrs_axis_deg |-> [boys |-> <<-4, 64, 118>>, girls |-> <<2, 69, 121>>]],
     [id |-> "3-5y", low |-> 3000, high |-> 5000,
      heart_rate |-> [boys |-> <<73, 98, 123>>, girls |-> <<78, 101, 124>>],
      pr_interval_ms |-> [boys |-> <<98, 121, 152>>, girls |-> <<99, 123, 153>>],
      qrs_duration_ms |-> [boys |-> <<58, 75, 92>>, girls |-> <<58, 71, 88>>],
      qtc_ms |-> [boys |-> <<377, 412, 448>>, girls |-> <<388, 415, 442>>],
      qrs_axis_deg |-> [boys |-> <<7, 70, 112>>, girls |-> <<3, 69, 106>>]],
     [id |-> "5-8y", low |-> 5000, high |-> 8000,
      heart_rate |-> [boys |-> <<62, 88, 113>>, girls |-> <<68, 89, 115>>],
      pr_interval_ms |-> [boys |-> <<99, 129, 160>>, girls |-> <<92, 124, 156>>],
      qrs_duration_ms |-> [boys |-> <<63, 80, 98>>, girls |-> <<59, 77, 95>>],
      qtc_ms |-> [boys |-> <<371, 411, 443>>, girls |-> <<375, 409, 449>>],
      qrs_axis_deg |-> [boys |-> <<-10, 70, 112>>, girls |-> <<27, 74, 117>>]],
     [id |-> "8-12y", low |-> 8000, high |-> 12000,
      heart_rate |-> [boys |-> <<55, 78, 101>>, girls |-> <<58, 80, 110>>],
      pr_interval_ms |-> [boys |-> <<105, 134, 174>>, girls |-> <<103, 129, 163>>],
      qrs_duration_ms |-> [boys |-> <<67, 85, 103>>, girls |-> <<66, 82, 99>>],
      qtc_ms |-> [boys |-> <<373, 411, 440>>, girls |-> <<365, 410, 447>>],
      qrs_axis_deg |-> [boys |-> <<-21, 70, 114>>, girls |-> <<5, 66, 117>>]],
     [id |-> "12-16y", low |-> 12000, high |-> 16000,
      heart_rate |-> [boys |-> <<48, 73, 99>>, girls |-> <<54, 76, 107>>],
      pr_interval_ms |-> [boys |-> <<107, 139, 178>>, girls |-> <<106, 135, 176>>],
      qrs_duration_ms |-> [boys |-> <<78, 91, 111>>, girls |-> <<72, 87, 106>>],
      qtc_ms |-> [boys |-> <<362, 407, 449>>, girls |-> <<370, 414, 457>>],
      qrs_axis_deg |-> [boys |-> <<-9, 65, 112>>, girls |-> <<5, 66, 101>>]]
    >>

ParamNames == {"heart_rate", "pr_interval_ms", "qrs_duration_ms", "qtc_ms", "qrs_axis_deg"}

\* low <= age_years <= high: the upper end taken into the bin
InBinUpperClosed(bin_data, age_years) == bin_data.low <= age_years /\ age_years <= bin_data.high

\* low <= age_years < high
InBin(bin_data, age_years) == bin_data.low <= age_years /\ age_years < bin_data.high

\* the for loop of get_rijnbeek_bin from the bin of index i on
RECURSIVE FirstBin(_, _)
FirstBin(age_years, i) ==
    IF i > Len(age_bins) THEN age_bins[Len(age_bins)]
    ELSE IF InBin(age_bins[i], age_years) THEN age_bins[i]
    ELSE FirstBin(age_years, i + 1)

get_rijnbeek_bin(age_years) == FirstBin(age_years, 1)

\* sex.lower()
Lower(sex) == IF sex = "Boys" THEN "boys" ELSE IF sex = "GIRLS" THEN "girls" ELSE sex

NoReference == <<>>

\* the None compute_percentile returns
NoPercentile == [none |-> TRUE]

\* get_reference_value: the triple of the bin, or {} (NoReference)
get_reference_value(age_years, param, sex) ==
    LET bin_data == get_rijnbeek_bin(age_years)
    IN  IF param \notin ParamNames THEN NoReference
        ELSE IF Lower(sex) = "girls" THEN bin_data[param].girls
        ELSE bin_data[param].boys

\* compute_percentile: None without a reference, else the interpolation
\* between the percentiles 2, 50 and 98
compute_percentile(value, age_years, param, sex) ==
    LET ref == get_reference_value(age_years, param, sex)
        p2 == ref[1]
        p50 == ref[2]
        p98 == ref[3]
    IN  IF ref = NoReference THEN NoPercentile
        ELSE IF value <= p2
        THEN IF p2 > 0 THEN RMul(RInt(2), Rat(value, p2)) ELSE RInt(0)
        ELSE IF value <= p50 THEN RAdd(RInt(2), Rat(48 * (value - p2), p50 - p2))
        ELSE IF value <= p98 THEN RAdd(RInt(50), Rat(48 * (value - p50), p98 - p50))
        ELSE PyMin(RInt(100), RAdd(RInt(98), Rat(2 * (value - p98), p98 - p50)))

\* compute_z_score_rijnbeek: (value - p50) / ((p98 - p2) / 4), 0 when the
\* spread is not positive, None without a reference
compute_z_score_rijnbeek(value, age_years, param, sex) ==
    LET ref == get_reference_value(age_years, param, sex)
    IN  IF ref = NoReference THEN NoPercentile
        ELSE IF ref[3] - ref[1] <= 0 THEN RInt(0)
        ELSE Rat(4 * (value - ref[2]), ref[3] - ref[1])

\* round(r, places) with scale = 10 ** places: to the nearest multiple of
\* 1 / scale, a tie to the even one
PyRound(r, scale) ==
    LET scaled == RMul(r, RInt(scale))
        below == RFloor(scaled)
        rest == RSub(scaled, RInt(below))
    IN  IF RLt(rest, Rat(1, 2)) THEN Rat(below, scale)
        ELSE IF RLt(Rat(1, 2), rest) THEN Rat(below + 1, scale)
        ELSE IF below % 2 = 0 THEN Rat(below, scale)
        ELSE Rat(below + 1, scale)

\* "round(x, places) if x else None": None for None and for 0
RoundedOrNone(x, scale) ==
    IF x = NoPercentile \/ x = RInt(0) THEN NoPercentile ELSE PyRound(x, scale)

\* the if/elif chain over percentile, lines 221-232
Interpretation(percentile) ==
    IF percentile = NoPercentile THEN "Unknown"
    ELSE IF RLt(percentile, RInt(2)) THEN "Below 2nd percentile (abnormally low)"
    ELSE IF RLt(percentile, RInt(5)) THEN "Low normal (2nd-5th percentile)"
    ELSE IF RLe(percentile, RInt(95)) THEN "Normal"
    ELSE IF RLe(percentile, RInt(98)) THEN "High normal (95th-98th percentile)"
    ELSE "Above 98th percentile (abnormally high)"

\* check_within_normal: the dictionary it returns; without a reference
\* within_2_98 is None (NoPercentile) and reference is absent (NoReference)
check_within_normal(value, age_years, param, sex) ==
    LET ref == get_reference_value(age_years, param, sex)
        percentile == compute_percentile(value, age_years, param, sex)
        z_score == compute_z_score_rijnbeek(value, age_years, param, sex)
    IN  IF ref = NoReference
        THEN [within_2_98 |-> NoPercentile, percentile |-> NoPercentile,
              z_score |-> NoPercentile, interpretation |-> "No reference data",
              reference |-> NoReference]
        ELSE [within_2_98 |-> (ref[1] <= value /\ value <= ref[3]),
              percentile |-> RoundedOrNone(percentile, 10),
              z_score |-> RoundedOrNone(z_score, 100),
              interpretation |-> Interpretation(percentile),
              reference |-> ref]

-----------------------------------------------------------------------------
(* The functions of pediatric_reference.py called on their own *)

\* ages at, next to and beyond the ends of the bins
RefAges ==
    {-1000, -1, 20000}
    \cup UNION {{age_bins[i].low - 1, age_bins[i].low, age_bins[i].low + 1,
                 age_bins[i].high - 1, age_bins[i].high} : i \in 1..Len(age_bins)}

RefValues == {-90, -30, -1, 0, 1, 50, 75, 100, 140, 160, 420, 500}

\* values for check_within_normal: RefValues and some p2 and p98 of the table
WithinValues == RefValues \cup {-21, -6, 2, 107, 108, 121}

RefParams == ParamNames \cup {"t_axis_deg"}

RefSexes == {"boys", "girls", "Boys", "unknown"}

RefCall(fn, value, age_years, param, sex) ==
    [fn |-> fn, value |-> value, age_years |-> age_years, param |-> param, sex |-> sex]

RefCalls ==
    {RefCall("get_rijnbeek_bin", 0, age, "heart_rate", "boys") : age \in RefAges}
    \cup {RefCall("get_reference_value", 0, age, param, sex) :
             age \in RefAges, param \in RefParams, sex \in RefSexes}
    \cup {RefCall("compute_percentile", value, age, param, sex) :
             value \in RefValues, age \in RefAges, param \in RefParams,
             sex \in {"boys", "girls"}}
    \cup {RefCall("check_within_normal", value, age, param, sex) :
             value \in WithinValues, age \in RefAges, param \in RefParams,
             sex \in {"boys", "girls"}}

RefInit ==
    /\ pc = "ref_call"
    /\ ref_call \in RefCalls
    /\ ref_result = NoRefResult
    /\ FnIdle /\ WatcherIdle
    /\ trace_mask = NoMask /\ y_start = 0 /\ y_end = 0 /\ max_jump = 0
    /\ trace_px = NoPath /\ path_source = "none"

fn_vars == <<image, image_bytes, paper_speed_mm_s, voltage_scale_mm_mV, target_fs,
             trace_pixel_count, method, color_info, grid, grid_spacing_px,
             grid_confidence, cal, result, request, response, trace_mask, y_start, y_end, max_jump, trace_px,
             path_source, ref_call, watcher_vars>>

RefBin ==
    /\ pc = "ref_call" /\ ref_call.fn = "get_rijnbeek_bin"
    /\ ref_result' = [returned |-> TRUE, value |-> get_rijnbeek_bin(ref_call.age_years)]
    /\ pc' = "ref_done"
    /\ UNCHANGED fn_vars

RefValue ==
    /\ pc = "ref_call" /\ ref_call.fn = "get_reference_value"
    /\ ref_result' = [returned |-> TRUE,
                      value |-> get_reference_value(ref_call.age_years, ref_call.param,
                                                    ref_call.sex)]
    /\ pc' = "ref_done"
    /\ UNCHANGED fn_vars

RefPercentile ==
    /\ pc = "ref_call" /\ ref_call.fn = "compute_percentile"
    /\ ref_result' = [returned |-> TRUE,
                      value |-> compute_percentile(ref_call.value, ref_call.age_years,
                                                   ref_call.param, ref_call.sex)]
    /\ pc' = "ref_done"
    /\ UNCHANGED fn_vars

RefWithin ==
    /\ pc = "ref_call" /\ ref_call.fn = "check_within_normal"
    /\ ref_result' = [returned |-> TRUE,
                      value |-> check_within_normal(ref_call.value, ref_call.age_years,
                                                    ref_call.param, ref_call.sex)]
    /\ pc' = "ref_done"
    /\ UNCHANGED fn_vars

RefNext == RefBin \/ RefValue \/ RefPercentile \/ RefWithin

SpecRef == RefInit /\ [][RefNext]_vars

-----------------------------------------------------------------------------
(* detect_trace_pixels_color called on its own *)

Blue == <<60, 60, 250>>

Green == <<40, 200, 40>>

DarkRed == <<120, 20, 20>>

ClassH == 3

\* ClassH x 3 images of black ink on white, and 2 x 2 images of every colour
ClassImages ==
    {[H |-> ClassH, W |-> 3, px |-> px] : px \in [Pixels(ClassH, 3) -> {White, Black}]}
    \cup {[H |-> 2, W |-> 2, px |-> px] :
             px \in [Pixels(2, 2) -> {White, Black, Blue, Green, DarkRed, Pink}]}

ClassInit ==
    /\ pc = "color_call"
    /\ image \in ClassImages
    /\ image_bytes = FALSE
    /\ paper_speed_mm_s = 0 /\ voltage_scale_mm_mV = 0 /\ target_fs = 0
    /\ trace_pixel_count = 0 /\ method = "" /\ color_info = NoCall
    /\ grid = NoGrid /\ grid_spacing_px = NaN /\ grid_confidence = NaN
    /\ cal = NoCal /\ result = NoResult
    /\ request = NoRequest /\ response = NoResponse
    /\ RefIdle /\ WatcherIdle
    /\ trace_mask = NoMask /\ y_start = 0 /\ y_end = 0 /\ max_jump = 0
    /\ trace_px = NoPath /\ path_source = "none"

\* trace_mask = detect_trace_pixels_color(image)
ClassCall ==
    /\ pc = "color_call"
    /\ trace_mask' = detect_trace_pixels_color(image)
    /\ pc' = "color_done"
    /\ UNCHANGED <<pipeline_vars, y_start, y_end, max_jump, trace_px, path_source>>

ClassNext == ClassCall

SpecClass == ClassInit /\ [][ClassNext]_vars

-----------------------------------------------------------------------------
(* tools/clipboard-watcher.py: the thread of clipboard_watch_loop and the Flask  *)
(* threads (app.run(threaded=True)) that serve /latest-ecg and /ecg-ready.  A    *)
(* step is one read or one write of a global, so every interleaving of the      *)
(* threads' accesses is a behaviour.  An ECG is named by its number: the k-th    *)
(* dictionary create_ecg_json returned is k, and None is 0.                      *)

MaxImports == 2

NumHandlers == 2

NumHashes == 2

Handlers == 1..NumHandlers

\* what get_clipboard_image can return: None (also after an exception), or an
\* image with its hash and whether w > 200 and h > 100
Clipboard ==
    {[image |-> FALSE, hash |-> 0, large |-> FALSE]}
    \cup {[image |-> TRUE, hash |-> h, large |-> l] : h \in 1..NumHashes, l \in BOOLEAN}

\* lines 188 and 189 swapped
process_order_counter_first == <<"count", "store">>

\* the statements of process_clipboard_image after create_ecg_json, in order:
\* "latest_ecg = ecg_json" and "ecg_counter += 1"
process_order == <<"store", "count">>

\* the statement after the one labelled label, "return" after the last
NextStatement(label) == IF label = process_order[1] THEN process_order[2] ELSE "return"

WatchInit ==
    /\ pc = "watch"
    /\ FnIdle /\ RefIdle
    /\ trace_mask = NoMask /\ y_start = 0 /\ y_end = 0 /\ max_jump = 0
    /\ trace_px = NoPath /\ path_source = "none"
    /\ latest_ecg = 0 /\ ecg_counter = 0 /\ ready_seen = 0
    /\ watcher = WatcherStart
    /\ handler = [t \in Handlers |-> HandlerIdle]

call_vars == <<pc, image, image_bytes, paper_speed_mm_s, voltage_scale_mm_mV, target_fs,
               trace_mask, trace_pixel_count, method, color_info, grid, grid_spacing_px,
               grid_confidence, y_start, y_end, max_jump, trace_px, path_source, cal,
               result, request, response, ref_call, ref_result>>

\* clipboard_watch_loop, lines 212-232: one pass of the loop up to the call of
\* process_clipboard_image
WatchPoll ==
    /\ watcher.pc = "poll"
    /\ \E img \in Clipboard :
          watcher' =
              IF img.image /\ img.hash # watcher.last_image_hash
              THEN [watcher EXCEPT !.last_image_hash = img.hash,
                                   !.pc = IF img.large THEN "extract" ELSE "poll"]
              ELSE watcher
    /\ UNCHANGED <<call_vars, latest_ecg, ecg_counter, handler, ready_seen>>

\* process_clipboard_image, lines 181-187: extract_trace returns None (the
\* function returns False), raises (the loop's "except Exception" catches it), or
\* returns trace data from which create_ecg_json makes a new dictionary
WatchExtract ==
    /\ watcher.pc = "extract"
    /\ \E outcome \in {"none", "raises", "data"} :
          IF outcome = "data"
          THEN /\ watcher.made < MaxImports
               /\ watcher' = [watcher EXCEPT !.made = @ + 1, !.ecg_json = watcher.made + 1,
                                             !.pc = process_order[1]]
          ELSE watcher' = [watcher EXCEPT !.pc = "poll"]
    /\ UNCHANGED <<call_vars, latest_ecg, ecg_counter, handler, ready_seen>>

\* line 188: latest_ecg = ecg_json
WatchStore ==
    /\ watcher.pc = "store"
    /\ latest_ecg' = watcher.ecg_json
    /\ watcher' = [watcher EXCEPT !.pc = NextStatement("store")]
    /\ UNCHANGED <<call_vars, ecg_counter, handler, ready_seen>>

\* line 189, ecg_counter += 1: the read of the global
WatchCountLoad ==
    /\ watcher.pc = "count"
    /\ watcher' = [watcher EXCEPT !.loaded = ecg_counter, !.pc = "count_write"]
    /\ UNCHANGED <<call_vars, latest_ecg, ecg_counter, handler, ready_seen>>

\* line 189, ecg_counter += 1: the write of the global
WatchCountStore ==
    /\ watcher.pc = "count_write"
    /\ ecg_counter' = watcher.loaded + 1
    /\ watcher' = [watcher EXCEPT !.loaded = 0, !.pc = NextStatement("count")]
    /\ UNCHANGED <<call_vars, latest_ecg, handler, ready_seen>>

\* line 190 and lines 226-232: return True, and the loop goes on
WatchReturn ==
    /\ watcher.pc = "return"
    /\ watcher' = [watcher EXCEPT !.returned_true = @ + 1, !.ecg_json = 0, !.pc = "poll"]
    /\ UNCHANGED <<call_vars, latest_ecg, ecg_counter, handler, ready_seen>>

\* lines 234-235: KeyboardInterrupt ends the loop and with it the process; the
\* daemon thread of the server serves nothing more
WatchInterrupt ==
    /\ watcher.pc \notin {"off", "exited"}
    /\ watcher' = [watcher EXCEPT !.pc = "exited"]
    /\ UNCHANGED <<call_vars, latest_ecg, ecg_counter, handler, ready_seen>>

\* a request arrives: GET /ecg-ready or GET /latest-ecg.  floor remembers what
\* the /ecg-ready responses returned before the request began had shown.
HandleRequest(t) ==
    /\ watcher.pc # "exited"
    /\ handler[t].pc = "idle"
    /\ \E route \in {"ecg_ready", "get_latest_ecg"} :
          handler' = [handler EXCEPT ![t] = [pc |-> route, floor |-> ready_seen, reply |-> 0]]
    /\ UNCHANGED <<call_vars, latest_ecg, ecg_counter, watcher, ready_seen>>

\* ecg_ready, line 66: return jsonify({'count': ecg_counter})
ecg_ready(t) ==
    /\ watcher.pc # "exited"
    /\ handler[t].pc = "ecg_ready"
    /\ handler' = [handler EXCEPT ![t].pc = "ready_replied", ![t].reply = ecg_counter]
    /\ ready_seen' = IF ecg_counter > ready_seen THEN ecg_counter ELSE ready_seen
    /\ UNCHANGED <<call_vars, latest_ecg, ecg_counter, watcher>>

\* get_latest_ecg, line 58: "if latest_ecg:", and line 60 when it is None
get_latest_ecg_test(t) ==
    /\ watcher.pc # "exited"
    /\ handler[t].pc = "get_latest_ecg"
    /\ handler' = [handler EXCEPT ![t].pc = IF latest_ecg # 0 THEN "latest_read"
                                            ELSE "latest_replied"]
    /\ UNCHANGED <<call_vars, latest_ecg, ecg_counter, watcher, ready_seen>>

\* get_latest_ecg, line 59: return jsonify(latest_ecg), a second read
get_latest_ecg_read(t) ==
    /\ watcher.pc # "exited"
    /\ handler[t].pc = "latest_read"
    /\ handler' = [handler EXCEPT ![t].pc = "latest_replied", ![t].reply = latest_ecg]
    /\ UNCHANGED <<call_vars, latest_ecg, ecg_counter, watcher, ready_seen>>

\* the response has been sent; the thread serves the next request
HandleDone(t) ==
    /\ handler[t].pc \in {"ready_replied", "latest_replied"}
    /\ handler' = [handler EXCEPT ![t] = HandlerIdle]
    /\ UNCHANGED <<call_vars, latest_ecg, ecg_counter, watcher, ready_seen>>

WatchNext ==
    \/ WatchPoll
    \/ WatchExtract
    \/ WatchStore
    \/ WatchCountLoad
    \/ WatchCountStore
    \/ WatchReturn
    \/ WatchInterrupt
    \/ \E t \in Handlers : HandleRequest(t)
    \/ \E t \in Handlers : ecg_ready(t)
    \/ \E t \in Handlers : get_latest_ecg_test(t)
    \/ \E t \in Handlers : get_latest_ecg_read(t)
    \/ \E t \in Handlers : HandleDone(t)

SpecWatch == WatchInit /\ [][WatchNext]_vars

-----------------------------------------------------------------------------
(* Properties of the path extractor and of the region selector (SpecFn) *)

\* C1: a path produced by the dynamic program (a last-column state was reached)
\* moves at most max_jump rows between any two adjacent columns
C1_JumpBound ==
    (pc = "path_done" /\ path_source = "dp") =>
        \A x \in 1..(trace_mask.W - 1) :
            /\ trace_px[x].d = 1 /\ trace_px[x - 1].d = 1
            /\ Abs(trace_px[x].n - trace_px[x - 1].n) <= max_jump

\* a DP path that uses the whole allowance between two adjacent columns
C1_Witness ==
    /\ pc = "path_done" /\ path_source = "dp"
    /\ \E x \in 1..(trace_mask.W - 1) :
          Abs(trace_px[x].n - trace_px[x - 1].n) = max_jump

\* C2: the path the extractor returns, from the dynamic program or from the
\* centroid fallback, has one entry per column of the mask and no entry is NaN
C2_FullWidthNoNaN ==
    pc = "path_done" =>
        /\ DOMAIN trace_px = 0..(trace_mask.W - 1)
        /\ \A x \in 0..(trace_mask.W - 1) : ~IsNaN(trace_px[x])

\* the fallback ran on a mask with two segments further apart than max_jump and
\* a column without any trace pixel
C2_Witness ==
    /\ pc = "path_done" /\ path_source = "centroid"
    /\ \E x \in 0..(trace_mask.W - 1) : RegionRows(trace_mask, y_start, y_end, x) = {}

\* C5: the region find_rhythm_strip returns satisfies 0 <= y_start < y_end <= H
C5_RegionWellFormed ==
    pc = "strip_done" => (0 <= y_start /\ y_start < y_end /\ y_end <= trace_mask.H)

\* C6: the region find_rhythm_strip returns for a mask with a True pixel (and at
\* least num_bands rows) shares a row with the interval from the first to the
\* last populated row
C6_RegionOverlapsTrace ==
    (pc = "strip_done" /\ trace_mask.on # {} /\ trace_mask.H >= num_bands) =>
        \E p, q \in trace_mask.on : y_start <= q[1] /\ p[1] < y_end

-----------------------------------------------------------------------------
(* Properties of extract_signal (Spec) *)

\* C3: when the centroid method replaced the dynamic program, the returned
\* method is neither of the values returned when the dynamic program succeeded
C3_MethodReportsFallback ==
    (pc = "done" /\ path_source = "centroid") =>
        result.method \notin {"viterbi_color", "viterbi_vision"}

\* C4: extract_signal raises nothing and ends by returning an ExtractionResult,
\* whatever the image holds and with or without image_bytes
C4_AlwaysReturns == pc # "raised" /\ (pc = "done" => result.returned)

\* a result returned after few trace pixels, no grid and a failed dynamic program
C4_Witness ==
    /\ pc = "done" /\ result.returned
    /\ trace_pixel_count < VisionFloor /\ ~grid.found /\ path_source = "centroid"

\* C7: after step 1b the mask is the colour mask and method is "viterbi_vision"
\* exactly when the classifier found fewer than 500 pixels, image_bytes and a
\* non-empty colour list were supplied and the colour mask has strictly more
\* pixels; otherwise the mask is the classifier's and method is "viterbi_color"
C7_OverrideExactlyWhen ==
    pc = "grid" =>
        LET default_mask == detect_trace_pixels_color(image)
            supplied == /\ image_bytes
                        /\ color_info.outcome = "info"
                        /\ Len(color_info.colors) > 0
            color_mask == create_color_mask(image, color_info.colors, 60)
        IN  IF /\ PixelCount(default_mask) < 500
               /\ supplied
               /\ PixelCount(color_mask) > PixelCount(default_mask)
            THEN trace_mask = color_mask /\ method = "viterbi_vision"
            ELSE trace_mask = default_mask /\ method = "viterbi_color"

\* the colour mask replaced a non-empty classifier mask
C7_Witness ==
    /\ pc = "grid" /\ method = "viterbi_vision"
    /\ trace_pixel_count > PixelCount(detect_trace_pixels_color(image))
    /\ PixelCount(detect_trace_pixels_color(image)) > 0

\* C8: when the estimator returned no spacing or one below 3, extract_signal
\* goes on with spacing W / 250 and confidence 0.3, raises nothing, and returns
\* that spacing, which is positive
C8_GridSubstitution ==
    (pc \notin {"call", "vision", "grid"} /\ (~grid.found \/ RLt(grid.spacing, RInt(3)))) =>
        /\ pc # "raised"
        /\ grid_spacing_px = Rat(image.W, 250)
        /\ grid_confidence = Rat(3, 10)
        /\ RLt(RInt(0), grid_spacing_px)
        /\ (pc = "done" => result.grid_spacing_px = Rat(image.W, 250))

\* a result returned after the estimator found no spacing
C8_Witness == pc = "done" /\ ~grid.found /\ result.grid_spacing_px = Rat(image.W, 250)

\* C9: the quality_score of a returned result lies in [0, 1]
C9_QualityInUnitInterval ==
    pc = "done" =>
        /\ RLe(RInt(0), result.quality_score)
        /\ RLe(result.quality_score, RInt(1))

\* a result with a detected grid of full confidence and a score above 0.9
C9_Witness ==
    /\ pc = "done" /\ grid.found /\ grid_confidence = RInt(1)
    /\ RLt(Rat(9, 10), result.quality_score)

\* C10: for an image whose trace mask is False everywhere, the returned path is
\* (y_start + y_end) / 2 in every column and the quality_score is below 0.5
C10_BlankImage ==
    (pc = "done" /\ trace_mask.on = {}) =>
        /\ \A x \in 0..(image.W - 1) : result.signal[x] = Rat(y_start + y_end, 2)
        /\ RLt(result.quality_score, Rat(1, 2))

\* C11: the returned fs is the requested target_fs, and the number of samples of
\* signal_uV differs from duration_s * target_fs by at most one
C11_ResampleLength ==
    pc = "done" =>
        /\ result.fs = target_fs
        /\ RLe(RSub(RMul(result.duration_s, RInt(target_fs)), RInt(result.n_samples)), RInt(1))
        /\ RLe(RSub(RInt(result.n_samples), RMul(result.duration_s, RInt(target_fs))), RInt(1))

\* a result whose duration_s * target_fs is not a whole number of samples, and
\* one of 10 s at 500 Hz with its 5000 samples
C11_Witness ==
    /\ pc = "done"
    /\ \/ RMul(result.duration_s, RInt(target_fs)).d > 1
       \/ (result.duration_s = RInt(10) /\ target_fs = 500 /\ result.n_samples = 5000)

\* C12: every sample is multiplied by one factor chosen by the peak-to-peak
\* range r of the baseline-corrected signal: for 0 < r < 200 the range becomes
\* 1500, for r > 8000 it becomes 3000, and for 200 <= r <= 8000 or r = 0 the
\* signal is left as it is
C12_Normalization ==
    (pc \in {"assess", "done"}) =>
        LET r == cal.signal_range
            after == SignalRange(cal.trace_uV, image.W, cal.n, cal.scale_factor)
        IN  /\ cal.final_range = after
            /\ (RLt(RInt(0), r) /\ RLt(r, RInt(200))) =>
                   (cal.scale_factor = RDiv(RInt(1500), r) /\ after = RInt(1500))
            /\ RLt(RInt(8000), r) =>
                   (cal.scale_factor = RDiv(RInt(3000), r) /\ after = RInt(3000))
            /\ ((RLe(RInt(200), r) /\ RLe(r, RInt(8000))) \/ r = RInt(0)) =>
                   (cal.scale_factor = RInt(1) /\ after = r)

\* a signal with a range between 200 and 8000 that is returned unscaled
C12_Witness ==
    /\ pc = "done"
    /\ RLe(RInt(200), cal.signal_range) /\ RLe(cal.signal_range, RInt(8000))
    /\ cal.final_range = cal.signal_range

\* C13: when extract_trace_viterbi raised, the path is extract_trace_centroid of
\* the same mask and region, the method is what it was, nothing is raised to
\* the caller and the result is returned with that path
C13_ExceptionFallsBack ==
    path_source = "except" =>
        /\ pc # "raised"
        /\ method \in {"viterbi_color", "viterbi_vision"}
        /\ pc = "calibrate" => trace_px = extract_trace_centroid(trace_mask, y_start, y_end)
        /\ pc = "done" => (result.returned /\ result.signal = trace_px)

\* a result returned after the exception, on a mask the dynamic program would
\* have found a path through
C13_Witness ==
    /\ pc = "done" /\ path_source = "except" /\ result.returned
    /\ trace_mask.on # {}
    /\ \E x \in 1..(image.W - 1) : result.signal[x] # result.signal[0]

\* C15 as stated: for a path that lies in one row (a constant deviation array)
\* every sample of the returned signal_uV equals
\* deviation_px / spacing_px / gain_mm_per_mV * 1000 (images of two columns or
\* more, which leave the resampling a slope; the samples next to the column
\* instants stand for all, the signal being linear in between)
C15_SignalEqualsScaledDeviation ==
    (pc = "done" /\ image.W > 1 /\ \A x \in 0..(image.W - 1) : trace_px[x] = trace_px[0]) =>
        \A j \in ExtremeSamples(image.W, cal.n) :
            signal_uV(cal, image.W, j)
              = RMul(RDiv(RDiv(RSub(Rat(y_start + y_end, 2), trace_px[0]), grid_spacing_px),
                          RInt(voltage_scale_mm_mV)), RInt(1000))

\* C15, amended: the per-column trace_uV of step 5 is linear in the pixel
\* deviation, trace_uV[x] * spacing_px * gain = 1000 * (baseline - path[x]) with
\* baseline = (y_start + y_end) / 2, and it is positive exactly for the columns
\* whose path lies above the baseline
C15_TraceLinearInDeviation ==
    (pc \in {"assess", "done"}) =>
        \A x \in 0..(image.W - 1) :
            LET deviation_px == RSub(Rat(y_start + y_end, 2), trace_px[x])
            IN  /\ RMul(RMul(cal.trace_uV[x], grid_spacing_px), RInt(voltage_scale_mm_mV))
                     = RMul(deviation_px, RInt(1000))
                /\ RLt(RInt(0), cal.trace_uV[x]) <=> RLt(trace_px[x], Rat(y_start + y_end, 2))

\* a returned signal whose path lies above the baseline in one column and below
\* it in another, with a voltage scale other than 1
C15_Witness ==
    /\ pc = "done" /\ voltage_scale_mm_mV > 1
    /\ \E x, y \in 0..(image.W - 1) :
          /\ RLt(RInt(0), cal.trace_uV[x]) /\ RLt(cal.trace_uV[y], RInt(0))

-----------------------------------------------------------------------------
(* Properties of the handlers of app.py (SpecApi) *)

\* C14: a digitize request whose image has zero area, or whose crop rectangle
\* is degenerate after clamping to the image bounds, is answered with the input
\* failure (400, no success), never with an ExtractionResult or a 500
C14_ZeroAreaIsInputFailure ==
    (/\ pc = "responded" /\ request.endpoint = "digitize"
     /\ request.has_file /\ request.params_ok /\ request.decodes
     /\ \/ ZeroArea(request.picture)
        \/ DegenerateAfterClamping(request.crop, request.picture)) =>
        /\ response.status = 400 /\ ~response.success
        /\ ~result.returned

\* some measurement the picture allows makes detect_grid_spacing_robust return
\* a spacing
Detectable(img) ==
    /\ ~ZeroArea(img)
    /\ \E m \in Measurements(img) : detect_grid_spacing_robust(m, img.H, img.W).found

\* C16: a calibrate request with a readable image is answered success=true (200)
\* when the grid spacing is detectable and 400 "Could not detect grid spacing"
\* when it is not; a request without an image file is answered 400
C16_CalibrateAnswers ==
    (pc = "responded" /\ request.endpoint = "calibrate") =>
        IF ~request.has_file THEN response.status = 400
        ELSE request.decodes =>
                IF Detectable(request.picture)
                THEN response.status = 200 /\ response.success
                ELSE /\ response.status = 400
                     /\ response.error = "Could not detect grid spacing"

-----------------------------------------------------------------------------
(* Properties of pediatric_reference.py (SpecRef) *)

\* C17: get_rijnbeek_bin(age) never returns None; for an age in [0, 16) exactly
\* one bin's range [low, high) contains the age and that bin is returned; for an
\* age no bin contains (age >= 16 or age < 0) the last bin, 12-16y, is returned
C17_BinContainsAge ==
    (pc = "ref_done" /\ ref_call.fn = "get_rijnbeek_bin") =>
        LET age == ref_call.age_years
            holding == {i \in 1..Len(age_bins) :
                           age_bins[i].low <= age /\ age < age_bins[i].high}
        IN  /\ ref_result.value \in Range(age_bins)
            /\ (0 <= age /\ age < 16000) => Cardinality(holding) = 1
            /\ \A i \in holding : ref_result.value = age_bins[i]
            /\ holding = {} => /\ ref_result.value.id = "12-16y"
                               /\ (age >= 16000 \/ age < 0)

\* the age at the joint of two bins, returned the later one
C17_Witness ==
    /\ pc = "ref_done" /\ ref_call.fn = "get_rijnbeek_bin"
    /\ ref_call.age_years = 250 /\ ref_result.value.id = "3-6m"

\* C18: compute_percentile returns None when no reference exists and otherwise
\* a percentile within [0, 100], for every value, age, parameter and sex
C18_PercentileInRange ==
    (pc = "ref_done" /\ ref_call.fn = "compute_percentile") =>
        IF ref_call.param \notin ParamNames THEN ref_result.value = NoPercentile
        ELSE /\ ref_result.value # NoPercentile
             /\ RLe(RInt(0), ref_result.value)
             /\ RLe(ref_result.value, RInt(100))

-----------------------------------------------------------------------------
(* Properties of the bands of find_rhythm_strip (SpecFn) *)

\* C19: the 5 bands partition the mask rows: every row 0..H-1 belongs to exactly
\* one band, bands 0..3 have height H div 5, and the last band ends at row H
C19_BandsPartitionRows ==
    pc = "strip_done" =>
        LET bands == band_scores(trace_mask)
            H == trace_mask.H
        IN  /\ \A row \in 0..(H - 1) :
                  Cardinality({k \in 1..num_bands :
                                  bands[k].y_start <= row /\ row < bands[k].y_end}) = 1
            /\ \A k \in 1..(num_bands - 1) : bands[k].y_end - bands[k].y_start = H \div 5
            /\ bands[num_bands].y_end = H

-----------------------------------------------------------------------------
(* Properties of the candidates and of the dynamic program (SpecFn) *)

\* C21: after the fill every column has at least one candidate, and a column
\* with no True pixel in the region has exactly one: the average (cut to a whole
\* row) of the first candidates of the nearest column to its left and the
\* nearest column to its right that contain True pixels, that side's value when
\* only one side has such a column, and the region's midpoint when none has
C21_FillFromPopulatedColumns ==
    pc = "path_done" =>
        LET W == trace_mask.W
            built == BuildCandidates(trace_mask, y_start, y_end)
            filled == Candidates(trace_mask, y_start, y_end)
            populated == {x \in 0..(W - 1) : RegionRows(trace_mask, y_start, y_end, x) # {}}
        IN  \A x \in 0..(W - 1) :
               /\ Len(filled[x]) >= 1
               /\ x \notin populated =>
                     LET left == {c \in populated : c < x}
                         right == {c \in populated : c > x}
                         lx == CHOOSE c \in left : \A d \in left : d <= c
                         rx == CHOOSE c \in right : \A d \in right : c <= d
                     IN  filled[x] =
                            IF left # {} /\ right # {}
                            THEN <<(built[lx][1] + built[rx][1]) \div 2>>
                            ELSE IF left # {} THEN <<built[lx][1]>>
                            ELSE IF right # {} THEN <<built[rx][1]>>
                            ELSE <<(y_end - y_start) \div 2>>

\* every sequence that picks one candidate in each of the columns 0..x and keeps
\* every adjacent jump within mj
RECURSIVE Chains(_, _, _)
Chains(candidates, x, mj) ==
    IF x = 0 THEN {<<y>> : y \in Range(candidates[0])}
    ELSE {ch \in {Append(shorter, y) : shorter \in Chains(candidates, x - 1, mj),
                                        y \in Range(candidates[x])} :
             Abs(ch[x + 1] - ch[x]) <= mj}

\* twice the accumulated cost of a chain: column 0 costs 0, a transition
\* 0.5 * |y_curr - y_prev| + 1
RECURSIVE ChainCost2(_)
ChainCost2(ch) ==
    IF Len(ch) <= 1 THEN 0
    ELSE ChainCost2(SubSeq(ch, 1, Len(ch) - 1))
         + Abs(ch[Len(ch)] - ch[Len(ch) - 1]) + 2

\* the returned path as a chain of region rows
PathChain == [k \in 1..trace_mask.W |-> trace_px[k - 1].n - y_start]

\* C22: when the dynamic program succeeds, the returned path is one of the
\* chains of candidates with every jump within max_jump, and no such chain has
\* a smaller accumulated cost
C22_PathHasMinimalCost ==
    (pc = "path_done" /\ path_source = "dp") =>
        LET chains == Chains(Candidates(trace_mask, y_start, y_end), trace_mask.W - 1,
                             max_jump)
        IN  /\ PathChain \in chains
            /\ \A ch \in chains : ChainCost2(PathChain) <= ChainCost2(ch)

\* a path returned where a dearer chain through the other cluster exists
C22_Witness ==
    /\ pc = "path_done" /\ path_source = "dp"
    /\ \E ch \in Chains(Candidates(trace_mask, y_start, y_end), trace_mask.W - 1, max_jump) :
          /\ ChainCost2(PathChain) < ChainCost2(ch)
          /\ ch[1] = PathChain[1] /\ ch[trace_mask.W] = PathChain[trace_mask.W]

\* C23: extract_trace_viterbi returns the centroid method's result exactly when
\* no chain of candidates from column 0 to column W-1 with every jump within
\* max_jump exists; a path of one column always comes from the dynamic program
C23_FallbackIffNoChain ==
    (pc = "path_done" /\ path_source \in {"dp", "centroid"}) =>
        LET chains == Chains(Candidates(trace_mask, y_start, y_end), trace_mask.W - 1,
                             max_jump)
        IN  /\ path_source = "centroid" <=> chains = {}
            /\ chains = {} => trace_px = extract_trace_centroid(trace_mask, y_start, y_end)
            /\ chains # {} => PathChain \in chains
            /\ trace_mask.W = 1 => path_source = "dp"

\* the centroid result returned although the last column has a candidate within
\* max_jump of a candidate of the column before it, which column 0 cannot reach
C23_Witness ==
    /\ pc = "path_done" /\ path_source = "centroid" /\ trace_mask.W = 3
    /\ LET candidates == Candidates(trace_mask, y_start, y_end)
       IN  /\ \E p \in Range(candidates[1]), y \in Range(candidates[2]) :
                 Abs(y - p) <= max_jump
           /\ \A q \in Range(candidates[0]), p \in Range(candidates[1]) :
                 Abs(p - q) > max_jump

-----------------------------------------------------------------------------
(* Properties of the quality score (Spec) *)

\* the columns of the image that hold a True pixel of the mask inside the region
ColumnsWithEvidence ==
    {x \in 0..(image.W - 1) : RegionRows(trace_mask, y_start, y_end, x) # {}}

\* C24: the coverage term of quality_score is the fraction of path columns that
\* had pixel evidence: columns whose path value was filled, interpolated or set
\* to the midpoint do not count
C24_CoverageCountsEvidence ==
    pc = "done" =>
        result.quality_score
          = RAdd(RAdd(RMul(grid_confidence, Rat(3, 10)),
                      RMul(Rat(Cardinality(ColumnsWithEvidence), image.W), Rat(4, 10))),
                 RMul(RangeQuality(cal.final_range), Rat(3, 10)))

-----------------------------------------------------------------------------
(* Properties of detect_trace_pixels_color (SpecClass) *)

\* the pixels of the image that satisfy the dark-neutral, blue or green rule
RulePixels == {p \in Pixels(image.H, image.W) : TraceRule(image.px[p])}

\* the 2x2 block whose top-left corner is q
Block(q) == {q, <<q[1] + 1, q[2]>>, <<q[1], q[2] + 1>>, <<q[1] + 1, q[2] + 1>>}

\* C25: the mask of an RGB image has the image's H x W dimensions, is a subset
\* of the rule-satisfying pixels, and every True pixel of it lies in a 2x2 block
\* of rule-satisfying pixels, so an isolated pixel or a one-pixel-thick trace
\* is removed; the function returns for every image
C25_MaskOfBlocks ==
    pc = "color_done" =>
        /\ trace_mask.H = image.H /\ trace_mask.W = image.W
        /\ trace_mask.on \subseteq RulePixels
        /\ \A p \in trace_mask.on :
              \E q \in Block(<<p[1] - 1, p[2] - 1>>) : Block(q) \subseteq RulePixels
        /\ \A p \in RulePixels :
              (\A q \in Block(<<p[1] - 1, p[2] - 1>>) : ~(Block(q) \subseteq RulePixels))
                  => p \notin trace_mask.on

\* a mask that keeps a block and drops a pixel outside every block
C25_Witness ==
    /\ pc = "color_done"
    /\ trace_mask.on # {}
    /\ trace_mask.on # RulePixels

-----------------------------------------------------------------------------
(* Properties of the backtracking (SpecFn) *)

\* the keys met from curr along the predecessor pointers, the first one first
RECURSIVE PredChain(_, _)
PredChain(dp, curr) ==
    IF curr = None THEN <<>>
    ELSE <<curr>> \o PredChain(dp, IF curr \in DOMAIN dp THEN dp[curr].pred ELSE None)

\* C26: when the dynamic program selects a terminal state of column W-1, the
\* predecessor pointers lead through exactly one state of each column W-1, W-2,
\* ..., 0 and stop at column 0, so the backtracked path has exactly W entries
\* and the edge padding adds nothing
C26_BacktrackVisitsEveryColumn ==
    (pc = "path_done" /\ path_source = "dp") =>
        LET W == trace_mask.W
            candidates == Candidates(trace_mask, y_start, y_end)
            dp == DP(candidates, W, max_jump)
            end == EndPoint(dp, candidates, W)
            visited == PredChain(dp, end)
            path == Backtrack(dp, end, y_start)
        IN  /\ Len(visited) = W
            /\ \A k \in 1..Len(visited) :
                  /\ visited[k] \in DOMAIN dp
                  /\ visited[k][1] = W - k
                  /\ visited[k][2] \in Range(candidates[W - k])
            /\ dp[visited[W]].pred = None
            /\ Len(path) = W
            /\ \A x \in 0..(W - 1) : trace_px[x] = RInt(path[x + 1])

\* a backtracked path over several columns that changes row on the way
C26_Witness ==
    /\ pc = "path_done" /\ path_source = "dp"
    /\ trace_mask.W >= 3
    /\ \E x \in 1..(trace_mask.W - 1) : trace_px[x] # trace_px[x - 1]
    /\ Len(Backtrack(DP(Candidates(trace_mask, y_start, y_end), trace_mask.W, max_jump),
                     EndPoint(DP(Candidates(trace_mask, y_start, y_end), trace_mask.W,
                                 max_jump),
                              Candidates(trace_mask, y_start, y_end), trace_mask.W),
                     y_start)) = trace_mask.W

-----------------------------------------------------------------------------
(* Properties of the rows of the candidates (SpecFn) *)

\* C27: for a region with 0 <= y_start < y_end <= H every candidate, built from
\* the pixels or filled, is a region-relative row in [0, y_end - y_start), and
\* every value of a path produced by the dynamic program lies in
\* [y_start, y_end - 1]
C27_CandidatesInsideRegion ==
    (pc = "path_done" /\ path_source \in {"dp", "centroid"}
       /\ 0 <= y_start /\ y_start < y_end /\ y_end <= trace_mask.H) =>
        LET W == trace_mask.W
            built == BuildCandidates(trace_mask, y_start, y_end)
            candidates == Candidates(trace_mask, y_start, y_end)
        IN  /\ \A x \in 0..(W - 1) :
                  /\ \A k \in 1..Len(built[x]) : built[x][k] \in 0..(y_end - y_start - 1)
                  /\ Len(candidates[x]) >= 1
                  /\ \A k \in 1..Len(candidates[x]) :
                        candidates[x][k] \in 0..(y_end - y_start - 1)
            /\ path_source = "dp" =>
                  \A x \in 0..(W - 1) :
                      /\ trace_px[x].d = 1
                      /\ trace_px[x].n \in y_start..(y_end - 1)

\* a path of the dynamic program through filled columns that touches the last
\* row of a region that is not the whole image
C27_Witness ==
    /\ pc = "path_done" /\ path_source = "dp"
    /\ 0 < y_start /\ y_end < trace_mask.H
    /\ \E x \in 0..(trace_mask.W - 1) : RegionRows(trace_mask, y_start, y_end, x) = {}
    /\ \E x \in 0..(trace_mask.W - 1) : trace_px[x] = RInt(y_end - 1)

-----------------------------------------------------------------------------
(* Properties of the clipboard watcher (SpecWatch) *)

\* C28: under every interleaving of the watcher thread with the handler
\* threads, ecg_counter is the number of successful imports and never
\* decreases, latest_ecg is written before the counter is incremented, and a
\* /latest-ecg request made after a /ecg-ready response carried a count n >= 1
\* returns an ECG that is not None and is the n-th import or a later one
C28_CounterFollowsLatest ==
    /\ [](watcher.pc # "off" =>
            /\ ecg_counter \in {watcher.returned_true, watcher.returned_true + 1}
            /\ watcher.pc = "poll" => ecg_counter = watcher.returned_true
            /\ latest_ecg >= ecg_counter
            /\ ready_seen <= ecg_counter
            /\ \A t \in Handlers :
                  (handler[t].pc = "latest_replied" /\ handler[t].floor >= 1) =>
                      /\ handler[t].reply # 0
                      /\ handler[t].reply >= handler[t].floor)
    /\ [][ecg_counter' >= ecg_counter]_vars

\* a /latest-ecg request made after /ecg-ready returned 1 that answers with the
\* second import
C28_Witness ==
    \E t \in Handlers :
        /\ handler[t].pc = "latest_replied"
        /\ handler[t].floor = 1
        /\ handler[t].reply = 2
        /\ ecg_counter = 1

-----------------------------------------------------------------------------
(* Properties of check_within_normal (SpecRef) *)

\* C29: with reference data, within_2_98 is true exactly when the
\* interpretation is "Low normal", "Normal" or "High normal", and false exactly
\* when it is "Below 2nd percentile" or "Above 98th percentile"
C29_WithinMatchesInterpretation ==
    (pc = "ref_done" /\ ref_call.fn = "check_within_normal"
       /\ ref_result.value.reference # NoReference) =>
        /\ ref_result.value.within_2_98 \in BOOLEAN
        /\ ref_result.value.within_2_98
              <=> ref_result.value.interpretation
                      \in {"Low normal (2nd-5th percentile)", "Normal",
                           "High normal (95th-98th percentile)"}
        /\ ~ref_result.value.within_2_98
              <=> ref_result.value.interpretation
                      \in {"Below 2nd percentile (abnormally low)",
                           "Above 98th percentile (abnormally high)"}

-----------------------------------------------------------------------------
(* Properties of the returned quality score (Spec) *)

====
